---- MODULE Spec2Model ----
(***************************************************************************)
(* Job tracking (app/job_tracker.py), the job endpoints of app/main.py,    *)
(* the asynchronous DICOM worker of app/routers/api_images.py and the      *)
(* batch pipeline of app/routers/api_batch.py.                             *)
(*                                                                         *)
(* Conventions                                                             *)
(*   - a job token is a natural number; uuid4 is modelled as a counter, so *)
(*     a token is never issued twice and dict insertion order is token     *)
(*     order;                                                              *)
(*   - a timestamp is the value of the clock `now` (>= 1) when utcnow() is *)
(*     called; the null timestamp is NoTime;                               *)
(*   - an Optional[int] argument is a set with at most one element;        *)
(*   - an Optional[str] / Optional[dict] value is None or a string;        *)
(*   - an Optional[JobProgress] is a set with at most one record;          *)
(*   - a path is a sequence of components, a text a sequence of pieces, a  *)
(*     dict the sequence of its items in insertion order.                  *)
(***************************************************************************)
EXTENDS Integers, Sequences, FiniteSets, TLC

VARIABLES
    jobs,       \* JobTracker.jobs : token -> JobProgress
    now,        \* the wall clock read by datetime.utcnow()
    next_id,    \* the next token uuid4 hands out
    last_create, \* the create_job call that has just returned: registry size and
                \* terminal jobs it found, the jobs its cleanup removed, its token
                \* (cleared by the next call of a tracker client)
    worker,     \* per token: where its upload request / background task is
    cancel,     \* per token: where a DELETE /jobs/{job_id} handler is
    cancel_recorded, \* tokens whose cancel_job call has written Cancelled
    writer,     \* SpecPoll: the tracker call a worker thread is inside
    poll,       \* SpecPoll: where a GET /jobs/{job_id} request is, what it read
    committed,  \* SpecPoll: the job states that existed between two complete
                \* tracker calls since the running poll looked the job up
    call,       \* the call that has just returned, with its arguments
    response,   \* the HTTP response a job endpoint of main.py has just sent
    disk,       \* the files of the scratch directory of a batch request:
                \* path -> content
    extraction, \* the extract_zip_safely call that has just returned: its
                \* archive, the fault injected and what it returned
    batch       \* where a POST /batch/process_zip request is, with its locals

trackerVars == <<jobs, now, next_id, last_create>>
sysVars == <<worker, cancel, cancel_recorded>>
pollVars == <<writer, poll, committed>>
callVars == <<call, response>>
batchVars == <<disk, extraction, batch>>
vars == <<jobs, now, next_id, last_create, worker, cancel, cancel_recorded,
          writer, poll, committed, call, response, disk, extraction, batch>>

----------------------------------------------------------------------------
(* Bounds *)

MaxTime == 2            \* clock values 1..MaxTime
MaxTrackerJobs == 1     \* create_job calls in SpecTracker
MaxCapJobs == 4         \* create_job calls in SpecCap
MaxSubmits == 1         \* upload requests in SpecSys
MaxFiles == 2           \* files per upload request
MaxFrameJobs == 2       \* create_job calls in SpecFrame
max_jobs == 1           \* JobTracker(max_jobs), scaled down from 1000
MaxListJobs == 4        \* create_job calls in SpecList
max_limit == 2          \* the cap of GET /jobs on limit, scaled down from 100
MAX_FILES_IN_ZIP == 5   \* scaled down from 1000
MAX_EXTRACTION_SIZE == 6 \* scaled down from 500 MB
MAX_COMPRESSION_RATIO == 2 \* scaled down from 100
error_detail_limit == 2 \* response.text[:500], scaled down to pieces of text
unknown_listed == 2     \* categorized['unknown'][:20], scaled down
MaxMembers == 4         \* members of an uploaded archive, the overfull ones apart
MaxPaths == 3           \* paths of mixed kinds given to categorize_files
MaxSignals == 4         \* signal paths given to categorize_files / group_signal_files
MaxRegistry == 21       \* jobs of a registry handed to create_job in SpecEvict
MaxPattern == 2         \* length of the pattern of job kinds of such a registry

----------------------------------------------------------------------------
(* JobStatus and JobProgress *)

PENDING == "pending"
PROCESSING == "processing"
COMPLETED == "completed"
FAILED == "failed"
CANCELLED == "cancelled"

JobStatus == {PENDING, PROCESSING, COMPLETED, FAILED, CANCELLED}

None == "None"
NoTime == 0

JobProgressStarted(job_id, status, created_at, metadata) ==
    [ job_id           |-> job_id,
      status           |-> status,
      progress_percent |-> 0,
      message          |-> "",
      created_at       |-> created_at,
      started_at       |-> created_at,
      completed_at     |-> NoTime,
      result           |-> None,
      error            |-> None,
      metadata         |-> metadata ]

JobProgress(job_id, status, created_at, metadata) ==
    [ job_id           |-> job_id,
      status           |-> status,
      progress_percent |-> 0,
      message          |-> "",
      created_at       |-> created_at,
      started_at       |-> NoTime,
      completed_at     |-> NoTime,
      result           |-> None,
      error            |-> None,
      metadata         |-> metadata ]

min(a, b) == IF a < b THEN a ELSE b
max_second(a, b) == b

max(a, b) == IF a > b THEN a ELSE b

----------------------------------------------------------------------------
(* JobTracker: every method runs under self.lock, so each is one step on   *)
(* the registry J.  t is the clock value utcnow() returns during the call. *)

TerminalStatuses == {COMPLETED, FAILED, CANCELLED}

completed_jobs_any(J) == DOMAIN J

completed_jobs(J) == {id \in DOMAIN J : J[id].status \in TerminalStatuses}

sorts_before_by_token(J, a, b) == a < b

\* list.sort is stable and the list is built in dict (= token) order
sorts_before(J, a, b) ==
    \/ J[a].completed_at < J[b].completed_at
    \/ J[a].completed_at = J[b].completed_at /\ a < b

remove_count_floor(J) == Cardinality(completed_jobs(J)) \div 10

remove_count(J) == max(1, Cardinality(completed_jobs(J)) \div 10)

removed_jobs(J) ==
    {a \in completed_jobs(J) :
        Cardinality({b \in completed_jobs(J) : sorts_before(J, b, a)}) < remove_count(J)}

_cleanup_old_jobs(J) == [id \in DOMAIN J \ removed_jobs(J) |-> J[id]]

create_job_at_max(J, job_id, metadata, t) ==
    LET K == IF Cardinality(DOMAIN J) = max_jobs THEN _cleanup_old_jobs(J) ELSE J
    IN  [id \in DOMAIN K \cup {job_id} |->
            IF id = job_id
            THEN JobProgress(job_id, PENDING, t, IF metadata = None THEN "{}" ELSE metadata)
            ELSE K[id]]

create_job_reject(J, job_id, metadata, t) ==
    LET K == IF Cardinality(DOMAIN J) >= max_jobs THEN _cleanup_old_jobs(J) ELSE J
    IN  IF Cardinality(DOMAIN K) >= max_jobs
        THEN K
        ELSE [id \in DOMAIN K \cup {job_id} |->
                IF id = job_id
                THEN JobProgress(job_id, PENDING, t, IF metadata = None THEN "{}" ELSE metadata)
                ELSE K[id]]

create_job(J, job_id, metadata, t) ==
    LET K == IF Cardinality(DOMAIN J) >= max_jobs THEN _cleanup_old_jobs(J) ELSE J
    IN  [id \in DOMAIN K \cup {job_id} |->
            IF id = job_id
            THEN JobProgress(job_id, PENDING, t, IF metadata = None THEN "{}" ELSE metadata)
            ELSE K[id]]

\* Optional[JobProgress]: the empty set is None
get_job(J, job_id) == IF job_id \in DOMAIN J THEN {J[job_id]} ELSE {}

update_status_keep_progress(J, job_id, status, progress, message, t) ==
    IF job_id \notin DOMAIN J THEN J
    ELSE
        LET job  == J[job_id]
            j1   == [job EXCEPT !.status = status]
            j2   == IF progress # {}
                    THEN [j1 EXCEPT !.progress_percent =
                            min(100, max(0, CHOOSE p \in progress : TRUE))]
                    ELSE j1
            j3   == IF message # None THEN [j2 EXCEPT !.message = message] ELSE j2
            j4   == IF status = PROCESSING /\ j3.started_at = NoTime
                    THEN [j3 EXCEPT !.started_at = t]
                    ELSE j3
            j5   == IF status \in TerminalStatuses
                    THEN [j4 EXCEPT !.completed_at = t]
                    ELSE j4
        IN  [J EXCEPT ![job_id] = j5]

update_status_restart(J, job_id, status, progress, message, t) ==
    IF job_id \notin DOMAIN J THEN J
    ELSE
        LET job  == J[job_id]
            j1   == [job EXCEPT !.status = status]
            j2   == IF progress # {}
                    THEN [j1 EXCEPT !.progress_percent =
                            min(100, max(0, CHOOSE p \in progress : TRUE))]
                    ELSE j1
            j3   == IF message # None THEN [j2 EXCEPT !.message = message] ELSE j2
            j4   == IF status = PROCESSING
                    THEN [j3 EXCEPT !.started_at = t]
                    ELSE j3
            j5   == IF status \in TerminalStatuses
                    THEN [j4 EXCEPT !.completed_at = t,
                                    !.progress_percent =
                                        IF status = COMPLETED THEN 100 ELSE @]
                    ELSE j4
        IN  [J EXCEPT ![job_id] = j5]

update_status_progress_last(J, job_id, status, progress, message, t) ==
    IF job_id \notin DOMAIN J THEN J
    ELSE
        LET job  == J[job_id]
            j1   == [job EXCEPT !.status = status]
            j2   == IF message # None THEN [j1 EXCEPT !.message = message] ELSE j1
            j3   == IF status = PROCESSING /\ j2.started_at = NoTime
                    THEN [j2 EXCEPT !.started_at = t]
                    ELSE j2
            j4   == IF status \in TerminalStatuses
                    THEN [j3 EXCEPT !.completed_at = t,
                                    !.progress_percent =
                                        IF status = COMPLETED THEN 100 ELSE @]
                    ELSE j3
            j5   == IF progress # {}
                    THEN [j4 EXCEPT !.progress_percent =
                            min(100, max(0, CHOOSE p \in progress : TRUE))]
                    ELSE j4
        IN  [J EXCEPT ![job_id] = j5]

update_status(J, job_id, status, progress, message, t) ==
    IF job_id \notin DOMAIN J THEN J
    ELSE
        LET job  == J[job_id]
            j1   == [job EXCEPT !.status = status]
            j2   == IF progress # {}
                    THEN [j1 EXCEPT !.progress_percent =
                            min(100, max(0, CHOOSE p \in progress : TRUE))]
                    ELSE j1
            j3   == IF message # None THEN [j2 EXCEPT !.message = message] ELSE j2
            j4   == IF status = PROCESSING /\ j3.started_at = NoTime
                    THEN [j3 EXCEPT !.started_at = t]
                    ELSE j3
            j5   == IF status \in TerminalStatuses
                    THEN [j4 EXCEPT !.completed_at = t,
                                    !.progress_percent =
                                        IF status = COMPLETED THEN 100 ELSE @]
                    ELSE j4
        IN  [J EXCEPT ![job_id] = j5]

set_result_upsert(J, job_id, result) ==
    [id \in DOMAIN J \cup {job_id} |->
        IF id # job_id THEN J[id]
        ELSE IF id \in DOMAIN J THEN [J[id] EXCEPT !.result = result]
        ELSE [JobProgress(id, PENDING, NoTime, None) EXCEPT !.result = result]]

set_result_completing(J, job_id, result) ==
    IF job_id \in DOMAIN J
    THEN [J EXCEPT ![job_id].result = result, ![job_id].status = COMPLETED]
    ELSE J

set_result(J, job_id, result) ==
    IF job_id \in DOMAIN J
    THEN [J EXCEPT ![job_id].result = result]
    ELSE J

set_error_with_message(J, job_id, error, t) ==
    IF job_id \in DOMAIN J
    THEN [J EXCEPT ![job_id].error = error,
                   ![job_id].message = error,
                   ![job_id].status = FAILED,
                   ![job_id].completed_at = t]
    ELSE J

set_error(J, job_id, error, t) ==
    IF job_id \in DOMAIN J
    THEN [J EXCEPT ![job_id].error = error,
                   ![job_id].status = FAILED,
                   ![job_id].completed_at = t]
    ELSE J

delete_job(J, job_id) ==
    IF job_id \in DOMAIN J
    THEN [id \in DOMAIN J \ {job_id} |-> J[id]]
    ELSE J

----------------------------------------------------------------------------
(* The clock *)

Tick ==
    /\ now < MaxTime
    /\ now' = now + 1
    /\ UNCHANGED <<jobs, next_id, last_create, sysVars>>
    /\ UNCHANGED pollVars
    /\ UNCHANGED callVars
    /\ UNCHANGED batchVars

----------------------------------------------------------------------------
(* Tracker calls made by an arbitrary client of the JobTracker API *)

NoCreateJobCall == [size |-> 0, terminal |-> 0, removed |-> {}, returned |-> 0]

CreateJobCall(J, job_id) ==
    [ size     |-> Cardinality(DOMAIN J),
      terminal |-> Cardinality(completed_jobs(J)),
      removed  |-> IF Cardinality(DOMAIN J) >= max_jobs THEN removed_jobs(J) ELSE {},
      returned |-> job_id ]

CallCreateJob(limit, Metadata) ==
    \E metadata \in Metadata :
        /\ next_id <= limit
        /\ jobs' = create_job(jobs, next_id, metadata, now)
        /\ next_id' = next_id + 1
        /\ last_create' = CreateJobCall(jobs, next_id)
        /\ UNCHANGED <<now, sysVars>>
        /\ UNCHANGED pollVars
        /\ UNCHANGED callVars
        /\ UNCHANGED batchVars

CallUpdateStatus(Ids, Statuses, Progresses, Messages) ==
    \E job_id \in Ids, status \in Statuses, progress \in Progresses, message \in Messages :
        /\ jobs' = update_status(jobs, job_id, status, progress, message, now)
        /\ last_create' = NoCreateJobCall
        /\ UNCHANGED <<now, next_id, sysVars>>
        /\ UNCHANGED pollVars
        /\ UNCHANGED callVars
        /\ UNCHANGED batchVars

CallSetResult(Ids, Results) ==
    \E job_id \in Ids, result \in Results :
        /\ jobs' = set_result(jobs, job_id, result)
        /\ last_create' = NoCreateJobCall
        /\ UNCHANGED <<now, next_id, sysVars>>
        /\ UNCHANGED pollVars
        /\ UNCHANGED callVars
        /\ UNCHANGED batchVars

CallSetError(Ids, Errors) ==
    \E job_id \in Ids, error \in Errors :
        /\ jobs' = set_error(jobs, job_id, error, now)
        /\ last_create' = NoCreateJobCall
        /\ UNCHANGED <<now, next_id, sysVars>>
        /\ UNCHANGED pollVars
        /\ UNCHANGED callVars
        /\ UNCHANGED batchVars

CallDeleteJob(Ids) ==
    \E job_id \in Ids :
        /\ jobs' = delete_job(jobs, job_id)
        /\ last_create' = NoCreateJobCall
        /\ UNCHANGED <<now, next_id, sysVars>>
        /\ UNCHANGED pollVars
        /\ UNCHANGED callVars
        /\ UNCHANGED batchVars

SysIds == 1..MaxSubmits

NoRequest == [pc |-> "none", total |-> 0, idx |-> 0, processed |-> 0]

WriterIdle(phase) == [pc |-> "idle", phase |-> phase, status |-> None,
                      progress |-> {}, message |-> None, error |-> None]

PollIdle == [pc |-> "idle", job |-> {}]

NoCall == [op |-> "none", job_id |-> 0, status |-> None, progress |-> {},
           message |-> None, value |-> None]

NoResponse == [status_code |-> 0, body |-> <<>>]

NoFiles == [path \in {} |-> 0]

NoExtraction == [returned |-> FALSE]

NoBatch == [pc |-> "idle"]

Init ==
    /\ jobs = <<>>
    /\ now = 1
    /\ next_id = 1
    /\ last_create = NoCreateJobCall
    /\ worker = [j \in SysIds |-> NoRequest]
    /\ cancel = [j \in SysIds |-> "idle"]
    /\ cancel_recorded = {}
    /\ writer = WriterIdle("start")
    /\ poll = PollIdle
    /\ committed = {}
    /\ call = NoCall
    /\ response = NoResponse
    /\ disk = NoFiles
    /\ extraction = NoExtraction
    /\ batch = NoBatch

----------------------------------------------------------------------------
(* SpecTracker: the life of a job under any tracker calls.  A client       *)
(* creates up to MaxTrackerJobs jobs and calls update_status with any      *)
(* status (progress and message omitted), set_result, set_error and        *)
(* delete_job on the tokens 1..MaxTrackerJobs + 1 (the last one is never   *)
(* issued) while the clock advances.                                       *)

TrackerIds == 1..(MaxTrackerJobs + 1)

TCreateJob == CallCreateJob(MaxTrackerJobs, {"{op}"})
TUpdateStatus == CallUpdateStatus(TrackerIds, JobStatus, {{}}, {None})
TSetResult == CallSetResult(TrackerIds, {"{zip}"})
TSetError == CallSetError(TrackerIds, {"boom"})
TDeleteJob == CallDeleteJob(TrackerIds)

NextTracker ==
    \/ Tick
    \/ TCreateJob
    \/ TUpdateStatus
    \/ TSetResult
    \/ TSetError
    \/ TDeleteJob

SpecTracker == Init /\ [][NextTracker]_vars

\* C1: once a job's status is Completed, Failed or Cancelled, no later
\* tracker call changes its status.
TerminalStatusAbsorbing ==
    [][\A id \in DOMAIN jobs \cap DOMAIN jobs' :
          jobs[id].status \in TerminalStatuses => jobs'[id].status = jobs[id].status]_vars

\* C5: completed_at of a job is set at its first transition to a terminal
\* status and no later call on that job overwrites it.
CompletedAtSetOnce ==
    [][\A id \in DOMAIN jobs \cap DOMAIN jobs' :
          IF jobs[id].completed_at # NoTime
          THEN jobs'[id].completed_at = jobs[id].completed_at
          ELSE (jobs'[id].completed_at # NoTime) <=>
                   (jobs'[id].status \in TerminalStatuses)]_vars

----------------------------------------------------------------------------
(* SpecCap: the registry under capacity pressure.  Any client creates up   *)
(* to MaxCapJobs jobs and moves them between non-terminal and terminal     *)
(* statuses with update_status and set_error, or removes them with         *)
(* delete_job; the clock does not advance.  set_result is left to          *)
(* SpecTracker: it writes one field of one job and nothing else.           *)

CapIds == 1..MaxCapJobs

CCreateJob == CallCreateJob(MaxCapJobs, {"{op}"})
CUpdateStatus == CallUpdateStatus(CapIds, {PROCESSING, COMPLETED}, {{}}, {None})
CSetError == CallSetError(CapIds, {"boom"})
CDeleteJob == CallDeleteJob(CapIds)

NextCap ==
    \/ CCreateJob
    \/ CUpdateStatus
    \/ CSetError
    \/ CDeleteJob

SpecCap == Init /\ [][NextCap]_vars

Size(J) == Cardinality(DOMAIN J)

IsCreateJob == next_id' # next_id

\* C7 (as claimed): the number of jobs in the registry never exceeds max_jobs.
RegistryNeverExceedsMaxJobs == Size(jobs) <= max_jobs

\* C7 (amended): the registry grows past max_jobs only by a create_job call
\* made while no job in it is terminal; no other call adds a job, and a
\* create_job that finds max_jobs or more jobs, one of them terminal, does
\* not increase the number of jobs.
RegistryGrowsPastMaxOnlyWithoutTerminal ==
    [][(Size(jobs') > Size(jobs) /\ Size(jobs') > max_jobs)
          => (IsCreateJob /\ completed_jobs(jobs) = {})]_vars

RegistryFullWithTerminalCreated ==
    /\ last_create.size >= max_jobs
    /\ last_create.terminal > 0
    /\ last_create.returned \in DOMAIN jobs
    /\ Size(jobs) > max_jobs

\* C8: capacity eviction during create_job never removes or alters a job
\* whose status is Pending or Processing.
CreateJobKeepsNonTerminalJobs ==
    [][IsCreateJob =>
          \A id \in DOMAIN jobs :
              jobs[id].status \notin TerminalStatuses =>
                  (id \in DOMAIN jobs' /\ jobs'[id] = jobs[id])]_vars

EvictedBesideNonTerminal ==
    /\ last_create.removed # {}
    /\ last_create.terminal < last_create.size
    /\ \E id \in DOMAIN jobs :
          id < last_create.returned /\ jobs[id].status \in {PENDING, PROCESSING}

AboveMaxWithTenthTerminal(J) ==
    Size(J) > max_jobs /\ 10 * Cardinality(completed_jobs(J)) >= Size(J)

\* C9 (as claimed): when the registry holds more than max_jobs jobs and at
\* least 10% of them are terminal, one further create_job leaves at most
\* max_jobs + 1 jobs.
CreateAboveMaxLeavesMaxPlusOne ==
    [][(IsCreateJob /\ AboveMaxWithTenthTerminal(jobs))
          => Size(jobs') <= max_jobs + 1]_vars

\* C9 (amended): when the registry holds more than max_jobs jobs and at
\* least 10% of them are terminal, one further create_job leaves at most as
\* many jobs as the registry held before the call.
CreateAboveMaxDoesNotGrow ==
    [][(IsCreateJob /\ AboveMaxWithTenthTerminal(jobs))
          => Size(jobs') <= Size(jobs)]_vars

CreatedAboveMaxWithTenthTerminal ==
    /\ last_create.size > max_jobs
    /\ 10 * last_create.terminal >= last_create.size
    /\ last_create.removed # {}
    /\ last_create.returned \in DOMAIN jobs

\* C10: create_job always returns a token that was not in the registry and
\* leaves a record for it in the registry, also when the registry is at or
\* above max_jobs and nothing can be evicted.
CreateJobAlwaysInserts ==
    [][IsCreateJob =>
          /\ last_create'.returned \notin DOMAIN jobs
          /\ last_create'.returned \in DOMAIN jobs'
          /\ jobs'[last_create'.returned].job_id = last_create'.returned
          /\ jobs'[last_create'.returned].status = PENDING]_vars

CreatedWithNothingEvictable ==
    /\ last_create.size >= max_jobs
    /\ last_create.terminal = 0
    /\ last_create.removed = {}
    /\ last_create.returned \in DOMAIN jobs
    /\ Size(jobs) > max_jobs

----------------------------------------------------------------------------
(* SpecEvict: one create_job call on a registry of up to MaxRegistry jobs. *)
(* The registry is one that tracker calls can build: job i is of the kind  *)
(* the pattern gives it, the pattern repeated along the tokens; a kind is  *)
(* a job just created (Pending), a job that failed at progress 40 and was  *)
(* then set back to Processing (its error and completed_at stay), a job    *)
(* Completed with a result, a job Failed at progress 40, or a job          *)
(* Cancelled before it started.  The completion times are all equal        *)
(* (stride 0) or go up and down along the tokens, with ties.               *)

JobKind(status, finished, progress_percent, message, result, error) ==
    [status |-> status, finished |-> finished, progress_percent |-> progress_percent,
     message |-> message, result |-> result, error |-> error]

JobKinds ==
    { JobKind(PENDING, FALSE, 0, "", None, None),
      JobKind(PROCESSING, TRUE, 40, "half", None, "boom"),
      JobKind(COMPLETED, TRUE, 100, "half", "{zip}", None),
      JobKind(FAILED, TRUE, 40, "half", None, "boom"),
      JobKind(CANCELLED, TRUE, 0, "cancelled", None, None) }

Patterns == UNION {[1..k -> JobKinds] : k \in 1..MaxPattern}

Strides == {0, 2, 3}

\* the time at which job id finished
finished_at(id, stride) == 1 + ((id * stride) % 5)

Registry(n, pattern, stride) ==
    [id \in 1..n |->
        LET kind == pattern[1 + ((id - 1) % Len(pattern))]
        IN  [JobProgress(id, kind.status, 1, "{op}") EXCEPT
                !.progress_percent = kind.progress_percent,
                !.message = kind.message,
                !.result = kind.result,
                !.error = kind.error,
                !.started_at = IF kind.progress_percent = 0 THEN NoTime ELSE 1,
                !.completed_at = IF kind.finished THEN finished_at(id, stride)
                                 ELSE NoTime]]

EvictionCall(J, job_id) == [op |-> "create_job", registry |-> J, job_id |-> job_id]

\* create_job(metadata) on the registry J, at a time after every completion
VCreateJob ==
    /\ call = NoCall
    /\ \E n \in 0..MaxRegistry, pattern \in Patterns, stride \in Strides :
           LET J == Registry(n, pattern, stride)
           IN  /\ jobs' = create_job(J, n + 1, "{op}", 6)
               /\ next_id' = n + 2
               /\ last_create' = CreateJobCall(J, n + 1)
               /\ call' = EvictionCall(J, n + 1)
    /\ UNCHANGED <<now, sysVars, response>>
    /\ UNCHANGED pollVars
    /\ UNCHANGED batchVars

NextEvict == VCreateJob

SpecEvict == Init /\ [][NextEvict]_vars

\* C34: when create_job runs with the registry size at or above max_jobs
\* and T >= 1 terminal jobs, exactly max(1, floor(T/10)) jobs are removed
\* before the insert, all of them terminal and none of them completed later
\* than a terminal job that stays; when T = 0 nothing is removed; every job
\* that stays is unchanged and the new job is inserted.
CleanupRemovesOldestTenth ==
    (call.op = "create_job" /\ Size(call.registry) >= max_jobs) =>
        LET J == call.registry
            terminal == {id \in DOMAIN J : J[id].status \in {COMPLETED, FAILED, CANCELLED}}
            T == Cardinality(terminal)
            removed == DOMAIN J \ DOMAIN jobs
        IN  /\ T = 0 => removed = {}
            /\ T >= 1 =>
                   /\ Cardinality(removed) = (IF T \div 10 > 1 THEN T \div 10 ELSE 1)
                   /\ removed \subseteq terminal
                   /\ \A r \in removed : \A k \in terminal \ removed :
                          J[r].completed_at <= J[k].completed_at
            /\ DOMAIN jobs = (DOMAIN J \ removed) \cup {call.job_id}
            /\ \A id \in DOMAIN J \ removed : jobs[id] = J[id]

\* C34 witness: of twenty or more terminal jobs two were removed, and a job
\* with a lower token that completed later has stayed
TwoOldestRemovedOutOfTokenOrder ==
    /\ call.op = "create_job"
    /\ Cardinality({id \in DOMAIN call.registry :
                        call.registry[id].status \in TerminalStatuses}) >= 20
    /\ Cardinality(DOMAIN call.registry \ DOMAIN jobs) = 2
    /\ \E r \in DOMAIN call.registry \ DOMAIN jobs :
           \E k \in DOMAIN jobs \cap DOMAIN call.registry :
               /\ k < r
               /\ call.registry[k].status \in TerminalStatuses
               /\ call.registry[k].completed_at > call.registry[r].completed_at

----------------------------------------------------------------------------
(* SpecEffect: one update_status, set_result or set_error call on a        *)
(* registry of up to MaxFrameJobs jobs built as in SpecEvict, on any of    *)
(* its tokens or on the next one, which is not issued; update_status with  *)
(* any status, with and without a progress and a message.  `call` keeps    *)
(* the registry the call found.                                            *)

EffectCall(op, J, job_id, status, progress, message, value) ==
    [op |-> op, registry |-> J, job_id |-> job_id, status |-> status,
     progress |-> progress, message |-> message, value |-> value]

EffectRegistries ==
    {Registry(n, pattern, stride) :
        n \in 0..MaxFrameJobs, pattern \in Patterns, stride \in Strides}

XUpdateStatus ==
    /\ call = NoCall
    /\ \E J \in EffectRegistries :
         \E job_id \in 1..(Size(J) + 1), status \in JobStatus,
            progress \in {{}, {70}}, message \in {None, "later"} :
             /\ jobs' = update_status(J, job_id, status, progress, message, 6)
             /\ next_id' = Size(J) + 1
             /\ call' = EffectCall("update_status", J, job_id, status, progress,
                                   message, None)
    /\ UNCHANGED <<now, last_create, sysVars, response>>
    /\ UNCHANGED pollVars
    /\ UNCHANGED batchVars

XSetResult ==
    /\ call = NoCall
    /\ \E J \in EffectRegistries :
         \E job_id \in 1..(Size(J) + 1) :
             /\ jobs' = set_result(J, job_id, "{zip2}")
             /\ next_id' = Size(J) + 1
             /\ call' = EffectCall("set_result", J, job_id, None, {}, None, "{zip2}")
    /\ UNCHANGED <<now, last_create, sysVars, response>>
    /\ UNCHANGED pollVars
    /\ UNCHANGED batchVars

XSetError ==
    /\ call = NoCall
    /\ \E J \in EffectRegistries :
         \E job_id \in 1..(Size(J) + 1) :
             /\ jobs' = set_error(J, job_id, "again", 6)
             /\ next_id' = Size(J) + 1
             /\ call' = EffectCall("set_error", J, job_id, None, {}, None, "again")
    /\ UNCHANGED <<now, last_create, sysVars, response>>
    /\ UNCHANGED pollVars
    /\ UNCHANGED batchVars

NextEffect ==
    \/ XUpdateStatus
    \/ XSetResult
    \/ XSetError

SpecEffect == Init /\ [][NextEffect]_vars

\* C38: update_status, set_result and set_error applied to token t change
\* no field of a job other than t and neither add nor remove a registry
\* entry; set_result changes only the result of t (its status, progress,
\* message and three timestamps stay); update_status with the progress or
\* the message omitted leaves that field of t as it was unless the new
\* status is Completed.
CallsTouchOnlyTheirJob ==
    call.op \in {"update_status", "set_result", "set_error"} =>
        LET J == call.registry
            t == call.job_id
        IN  /\ DOMAIN jobs = DOMAIN J
            /\ \A id \in DOMAIN J \ {t} : jobs[id] = J[id]
            /\ (t \in DOMAIN J /\ call.op = "set_result") =>
                   /\ jobs[t].result = call.value
                   /\ \A field \in DOMAIN J[t] \ {"result"} : jobs[t][field] = J[t][field]
            /\ (t \in DOMAIN J /\ call.op = "update_status" /\ call.status # COMPLETED) =>
                   /\ call.progress = {} =>
                          jobs[t].progress_percent = J[t].progress_percent
                   /\ call.message = None => jobs[t].message = J[t].message

\* C38 witness: set_result has returned on a job that is Processing at
\* progress 40, beside another job
ResultSetOnRunningJobBesideAnother ==
    /\ call.op = "set_result"
    /\ call.job_id \in DOMAIN call.registry
    /\ Cardinality(DOMAIN call.registry) > 1
    /\ call.registry[call.job_id].status = PROCESSING
    /\ call.registry[call.job_id].result = None
    /\ jobs[call.job_id].result = "{zip2}"
    /\ jobs[call.job_id].status = PROCESSING
    /\ jobs[call.job_id].progress_percent = 40

----------------------------------------------------------------------------
(* Files on disk: a function from paths to contents.  A path is a sequence *)
(* of components.                                                          *)

\* os.path.join(base, name) for a relative name
join(base, name) == base \o name

write_file(files, path, content) ==
    [q \in DOMAIN files \cup {path} |-> IF q = path THEN content ELSE files[q]]

remove_file(files, path) == [q \in DOMAIN files \ {path} |-> files[q]]

\* the content of a directory entry: os.makedirs / tempfile.mkdtemp write
\* one, files have contents >= 0
Directory == 0 - 1

rmtree_top_only(files, path) == remove_file(files, path)

\* shutil.rmtree(path): path and everything below it go
rmtree(files, path) ==
    [q \in {r \in DOMAIN files :
                ~(Len(path) <= Len(r) /\ SubSeq(r, 1, Len(path)) = path)} |-> files[q]]

\* the path is root or lies below it
below(root, path) == Len(root) <= Len(path) /\ SubSeq(path, 1, Len(root)) = root

----------------------------------------------------------------------------
(* SpecSys: POST preprocess_async, its background task and DELETE          *)
(* /jobs/{job_id}.                                                         *)
(*                                                                         *)
(* The two request handlers are coroutines on the event loop: between two  *)
(* awaits a handler runs without another handler interleaving.  cancel_job *)
(* has no await, preprocess_dicom_files_async awaits while it saves the    *)
(* uploads.  _process_dicom_background is a plain function, which the      *)
(* framework runs on a pool thread after the response is sent, so its      *)
(* steps interleave with everything; a step of it is one tracker call and  *)
(* the thread-local work up to the next tracker call.  The clock does not  *)
(* advance here: what the calls do to timestamps is SpecTracker's subject. *)
(* The upload directory of a request and the files saved in it are on      *)
(* `disk`.                                                                 *)

EventLoopFree == \A k \in SysIds : cancel[k] = "idle"

At(j, pc) == worker[j].pc = pc

Goto(j, pc) == worker' = [worker EXCEPT ![j].pc = pc]

\* the directory tempfile.mkdtemp() gives the request of job j
temp_upload_dir(j) == << <<"tmp">>, <<"upload", ToString(j)>> >>

\* the first n uploads of job j written below its directory
RECURSIVE save_uploads(_, _, _)
save_uploads(files, j, n) ==
    IF n = 0 THEN files
    ELSE write_file(save_uploads(files, j, n - 1),
                    join(temp_upload_dir(j), << <<"file", ToString(n)>> >>), n)

\* preprocess_dicom_files_async up to its first await: validation has
\* passed (1..MaxFiles files), the job is created and tempfile.mkdtemp is
\* called outside any try: when it raises, the request ends with that
\* exception ("crashed")
SubmitCreate ==
    \E total \in 1..MaxFiles, raised \in BOOLEAN :
        /\ EventLoopFree
        /\ next_id <= MaxSubmits
        /\ jobs' = create_job(jobs, next_id, "{op}", now)
        /\ last_create' = CreateJobCall(jobs, next_id)
        /\ next_id' = next_id + 1
        /\ worker' = [worker EXCEPT ![next_id] =
                        [pc |-> IF raised THEN "crashed" ELSE "saving",
                         total |-> total, idx |-> 0, processed |-> 0]]
        /\ disk' = IF raised THEN disk
                   ELSE write_file(disk, temp_upload_dir(next_id), Directory)
        /\ UNCHANGED <<now, cancel, cancel_recorded>>
        /\ UNCHANGED pollVars
        /\ UNCHANGED callVars
        /\ UNCHANGED <<extraction, batch>>

\* saving an upload raises after some of them were written: the directory
\* is removed, set_error and HTTP 500, no task is scheduled
SubmitSaveFails(j) ==
    /\ EventLoopFree
    /\ At(j, "saving")
    /\ \E saved \in 0..(worker[j].total - 1) :
          disk' = rmtree(save_uploads(disk, j, saved), temp_upload_dir(j))
    /\ jobs' = set_error(jobs, j, "save error", now)
    /\ Goto(j, "rejected")
    /\ UNCHANGED <<now, next_id, last_create, cancel, cancel_recorded>>
    /\ UNCHANGED pollVars
    /\ UNCHANGED callVars
    /\ UNCHANGED <<extraction, batch>>

\* the uploads are saved: the task is scheduled and the job marked queued
SubmitQueued(j) ==
    /\ EventLoopFree
    /\ At(j, "saving")
    /\ disk' = save_uploads(disk, j, worker[j].total)
    /\ jobs' = update_status(jobs, j, PENDING, {}, "En file d'attente...", now)
    /\ Goto(j, "start")
    /\ UNCHANGED <<now, next_id, last_create, cancel, cancel_recorded>>
    /\ UNCHANGED pollVars
    /\ UNCHANGED callVars
    /\ UNCHANGED <<extraction, batch>>

FileProgressNext(idx, total) == 10 + (((idx + 1) * 70) \div total)

\* 10 + int((idx / total_files) * 70); the float product truncates to the
\* integer quotient for every total_files up to MAX_FILES = 50
FileProgress(idx, total) == 10 + ((idx * 70) \div total)

FileMessage(idx, total) ==
    "Traitement du fichier " \o ToString(idx + 1) \o "/" \o ToString(total)

ResultPayload(processed) ==
    "{zip_path: processed_medical_images.zip, files_processed: "
        \o ToString(processed) \o "}"

WorkerStart(j) ==
    /\ At(j, "start")
    /\ jobs' = update_status(jobs, j, PROCESSING, {5}, "Initialisation...", now)
    /\ \E raised \in BOOLEAN :
          Goto(j, IF raised THEN "except" ELSE "file")
    /\ UNCHANGED <<now, next_id, last_create, cancel, cancel_recorded>>
    /\ UNCHANGED pollVars
    /\ UNCHANGED callVars
    /\ UNCHANGED batchVars

\* one iteration of the loop over the files: the file is processed, skipped
\* (unreadable, or no conversion result) or its processing raises
WorkerFile(j) ==
    /\ At(j, "file")
    /\ jobs' = update_status(jobs, j, PROCESSING,
                             {FileProgress(worker[j].idx, worker[j].total)},
                             FileMessage(worker[j].idx, worker[j].total), now)
    /\ \E outcome \in {"processed", "skipped", "raised"} :
          worker' = [worker EXCEPT
              ![j].idx = @ + 1,
              ![j].processed = IF outcome = "processed" THEN @ + 1 ELSE @,
              ![j].pc = IF outcome = "raised" THEN "except"
                        ELSE IF worker[j].idx + 1 = worker[j].total THEN "csv"
                        ELSE "file"]
    /\ UNCHANGED <<now, next_id, last_create, cancel, cancel_recorded>>
    /\ UNCHANGED pollVars
    /\ UNCHANGED callVars
    /\ UNCHANGED batchVars

WorkerCsv(j) ==
    /\ At(j, "csv")
    /\ jobs' = update_status(jobs, j, PROCESSING, {85},
                             "Creation du fichier de nomenclature...", now)
    /\ \E raised \in BOOLEAN :
          Goto(j, IF raised THEN "except" ELSE "zip")
    /\ UNCHANGED <<now, next_id, last_create, cancel, cancel_recorded>>
    /\ UNCHANGED pollVars
    /\ UNCHANGED callVars
    /\ UNCHANGED batchVars

WorkerZip(j) ==
    /\ At(j, "zip")
    /\ jobs' = update_status(jobs, j, PROCESSING, {95},
                             "Creation de l'archive ZIP...", now)
    /\ \E raised \in BOOLEAN :
          Goto(j, IF raised THEN "except" ELSE "result")
    /\ UNCHANGED <<now, next_id, last_create, cancel, cancel_recorded>>
    /\ UNCHANGED pollVars
    /\ UNCHANGED callVars
    /\ UNCHANGED batchVars

WorkerResultSkipped(j) ==
    /\ At(j, "result")
    /\ Goto(j, "complete")
    /\ UNCHANGED <<jobs, now, next_id, last_create, cancel, cancel_recorded>>
    /\ UNCHANGED pollVars
    /\ UNCHANGED callVars
    /\ UNCHANGED batchVars

WorkerResult(j) ==
    /\ At(j, "result")
    /\ jobs' = set_result(jobs, j, ResultPayload(worker[j].processed))
    /\ Goto(j, "complete")
    /\ UNCHANGED <<now, next_id, last_create, cancel, cancel_recorded>>
    /\ UNCHANGED pollVars
    /\ UNCHANGED callVars
    /\ UNCHANGED batchVars

WorkerComplete(j) ==
    /\ At(j, "complete")
    /\ jobs' = update_status(jobs, j, COMPLETED, {100},
                             "Traitement termine avec succes!", now)
    /\ Goto(j, "finally")
    /\ UNCHANGED <<now, next_id, last_create, cancel, cancel_recorded>>
    /\ UNCHANGED pollVars
    /\ UNCHANGED callVars
    /\ UNCHANGED batchVars

WorkerExcept(j) ==
    /\ At(j, "except")
    /\ jobs' = set_error(jobs, j, "Erreur lors du traitement.", now)
    /\ Goto(j, "finally")
    /\ UNCHANGED <<now, next_id, last_create, cancel, cancel_recorded>>
    /\ UNCHANGED pollVars
    /\ UNCHANGED callVars
    /\ UNCHANGED batchVars

WorkerFinallyKeepsUploads(j) ==
    /\ At(j, "finally")
    /\ Goto(j, "done")
    /\ UNCHANGED <<jobs, now, next_id, last_create, cancel, cancel_recorded>>
    /\ UNCHANGED pollVars
    /\ UNCHANGED callVars
    /\ UNCHANGED batchVars

\* finally: the upload directory is removed if it exists and the task ends
WorkerFinally(j) ==
    /\ At(j, "finally")
    /\ disk' = IF temp_upload_dir(j) \in DOMAIN disk
               THEN rmtree(disk, temp_upload_dir(j))
               ELSE disk
    /\ Goto(j, "done")
    /\ UNCHANGED <<jobs, now, next_id, last_create, cancel, cancel_recorded>>
    /\ UNCHANGED pollVars
    /\ UNCHANGED callVars
    /\ UNCHANGED <<extraction, batch>>

\* cancel_job, lines 119-127: look the job up and read its status
CancelCheck(j) ==
    /\ EventLoopFree
    /\ cancel' = [cancel EXCEPT ![j] =
          IF get_job(jobs, j) = {} THEN "idle"
          ELSE IF \E job \in get_job(jobs, j) : job.status \in {PENDING, PROCESSING}
               THEN "update"
          ELSE "idle"]
    /\ UNCHANGED <<jobs, now, next_id, last_create, worker, cancel_recorded>>
    /\ UNCHANGED pollVars
    /\ UNCHANGED callVars
    /\ UNCHANGED batchVars

\* cancel_job, line 128: the handler takes the tracker lock and writes
CancelUpdate(j) ==
    /\ cancel[j] = "update"
    /\ jobs' = update_status(jobs, j, CANCELLED, {}, "Annule par l'utilisateur", now)
    /\ cancel' = [cancel EXCEPT ![j] = "idle"]
    /\ cancel_recorded' = IF j \in DOMAIN jobs THEN cancel_recorded \cup {j}
                          ELSE cancel_recorded
    /\ UNCHANGED <<now, next_id, last_create, worker>>
    /\ UNCHANGED pollVars
    /\ UNCHANGED callVars
    /\ UNCHANGED batchVars

NextSys ==
    \/ SubmitCreate
    \/ \E j \in SysIds : SubmitSaveFails(j)
    \/ \E j \in SysIds : SubmitQueued(j)
    \/ \E j \in SysIds : WorkerStart(j)
    \/ \E j \in SysIds : WorkerFile(j)
    \/ \E j \in SysIds : WorkerCsv(j)
    \/ \E j \in SysIds : WorkerZip(j)
    \/ \E j \in SysIds : WorkerResult(j)
    \/ \E j \in SysIds : WorkerComplete(j)
    \/ \E j \in SysIds : WorkerExcept(j)
    \/ \E j \in SysIds : WorkerFinally(j)
    \/ \E j \in SysIds : CancelCheck(j)
    \/ \E j \in SysIds : CancelUpdate(j)

SpecSys == Init /\ [][NextSys]_vars

\* The scheduling the framework gives: a request handler that can resume
\* is resumed by the event loop, however often other handlers run in
\* between; the background task is started once scheduled and each of its
\* steps returns or raises.  No client is obliged to cancel.
Fairness ==
    \A j \in SysIds :
        /\ SF_vars(SubmitSaveFails(j) \/ SubmitQueued(j))
        /\ WF_vars(CancelUpdate(j))
        /\ WF_vars(WorkerStart(j))
        /\ WF_vars(WorkerFile(j))
        /\ WF_vars(WorkerCsv(j))
        /\ WF_vars(WorkerZip(j))
        /\ WF_vars(WorkerResult(j))
        /\ WF_vars(WorkerComplete(j))
        /\ WF_vars(WorkerExcept(j))
        /\ WF_vars(WorkerFinally(j))

SpecSysFair == SpecSys /\ Fairness

Kept == DOMAIN jobs \cap DOMAIN jobs'

WorkerRunning == {"start", "file", "csv", "zip", "result", "complete", "except", "finally"}

\* C2: once cancel_job has recorded Cancelled for a job, every later write
\* of the still-running worker is ignored: the job is never again
\* Processing, Completed or Failed and no result is attached to it.
WorkerWritesAfterCancelIgnored ==
    [][\A j \in cancel_recorded \cap Kept :
          worker[j].pc \in WorkerRunning =>
              /\ jobs'[j].status \notin {PROCESSING, COMPLETED, FAILED}
              /\ jobs'[j].result = jobs[j].result]_vars

\* C3: DELETE /jobs/{job_id} changes a job only if it is Pending or
\* Processing when the change is applied; a job that is already terminal
\* keeps its status, progress and completed_at.
CancelLeavesTerminalJobAlone ==
    [][\A j \in SysIds \cap Kept :
          (cancel[j] = "update" /\ cancel'[j] = "idle"
              /\ jobs[j].status \in TerminalStatuses)
          => /\ jobs'[j].status = jobs[j].status
             /\ jobs'[j].progress_percent = jobs[j].progress_percent
             /\ jobs'[j].completed_at = jobs[j].completed_at]_vars

Moved(j, pc) == worker[j].pc = pc /\ worker'[j] # worker[j]

\* C6: the progress_percent stored for a job never decreases, whatever the
\* worker and a concurrent cancel do; the worker stores 5 at start, then
\* 10 + floor(70 * index / total), within 10..79, before each file, then
\* 85, 95 and 100.
ProgressNeverDecreases ==
    [][\A j \in SysIds \cap Kept :
          /\ jobs'[j].progress_percent >= jobs[j].progress_percent
          /\ Moved(j, "start") => jobs'[j].progress_percent = 5
          /\ Moved(j, "file") =>
                /\ jobs'[j].progress_percent \in 10..79
                /\ jobs'[j].progress_percent =
                      10 + ((70 * worker[j].idx) \div worker[j].total)
          /\ Moved(j, "csv") => jobs'[j].progress_percent = 85
          /\ Moved(j, "zip") => jobs'[j].progress_percent = 95
          /\ Moved(j, "complete") => jobs'[j].progress_percent = 100]_vars

CancelledJobRanToTheEnd ==
    \E j \in SysIds \cap DOMAIN jobs :
        /\ j \in cancel_recorded
        /\ worker[j].pc = "done"
        /\ worker[j].total = MaxFiles
        /\ jobs[j].progress_percent = 100

\* C28: every job created by preprocess_dicom_files_async eventually
\* reaches a terminal status (the scheduled task is run and each of its
\* steps returns or raises): no job stays Pending or Processing forever.
EveryJobEndsTerminal ==
    \A j \in SysIds :
        [](j \in DOMAIN jobs => <>(j \in DOMAIN jobs => jobs[j].status \in TerminalStatuses))

\* C29: in _process_dicom_background a failure at any step of one file
\* skips only that file: the loop goes on to the next file (or to the
\* index file after the last one), and the job ends Completed with
\* files_processed equal to the number of files that succeeded.
FileFailureSkipsOnlyThatFile ==
    [][\A j \in SysIds \cap Kept :
          /\ Moved(j, "file") =>
                /\ worker'[j].pc =
                      IF worker[j].idx + 1 = worker[j].total THEN "csv" ELSE "file"
                /\ worker'[j].processed \in {worker[j].processed, worker[j].processed + 1}
          /\ Moved(j, "complete") =>
                /\ jobs'[j].status = COMPLETED
                /\ jobs'[j].result = ResultPayload(worker[j].processed)]_vars

\* C30: the worker's tracker writes come in this order: Processing with
\* progress 5, one Processing update per file in input order, Processing
\* 85, Processing 95, set_result, then Completed with progress 100; and in
\* every reachable state a Completed job has a non-null result holding
\* zip_path.
WorkerWritesInOrder ==
    /\ [](\A j \in DOMAIN jobs :
             jobs[j].status = COMPLETED =>
                 /\ jobs[j].result # None
                 /\ jobs[j].result \in {ResultPayload(n) : n \in 0..MaxFiles})
    /\ [][\A j \in SysIds \cap Kept :
             LET wrote(progress) ==
                     /\ jobs'[j].status = PROCESSING
                     /\ jobs'[j].progress_percent = progress
                     /\ jobs'[j].result = jobs[j].result
             IN  /\ Moved(j, "start") =>
                       wrote(5) /\ worker'[j].pc \in {"file", "except"}
                 /\ Moved(j, "file") =>
                       /\ wrote(FileProgress(worker[j].idx, worker[j].total))
                       /\ jobs'[j].message = FileMessage(worker[j].idx, worker[j].total)
                       /\ worker'[j].idx = worker[j].idx + 1
                       /\ worker'[j].pc \in
                              {IF worker'[j].idx = worker[j].total THEN "csv" ELSE "file",
                               "except"}
                 /\ Moved(j, "csv") =>
                       wrote(85) /\ worker'[j].pc \in {"zip", "except"}
                 /\ Moved(j, "zip") =>
                       wrote(95) /\ worker'[j].pc \in {"result", "except"}
                 /\ Moved(j, "result") =>
                       /\ jobs'[j] = [jobs[j] EXCEPT
                                         !.result = ResultPayload(worker[j].processed)]
                       /\ worker'[j].pc = "complete"
                 /\ Moved(j, "complete") =>
                       /\ jobs'[j].status = COMPLETED
                       /\ jobs'[j].progress_percent = 100
                       /\ jobs'[j].result = jobs[j].result
                       /\ worker'[j].pc = "finally"]_vars

\* C30 witness: a worker has run over two files without a cancellation and
\* has written Completed
WorkerCompletedTwoFiles ==
    \E j \in SysIds \cap DOMAIN jobs :
        /\ worker[j].pc = "done"
        /\ worker[j].total = 2
        /\ worker[j].processed = 2
        /\ cancel_recorded = {}
        /\ jobs[j].status = COMPLETED
        /\ jobs[j].progress_percent = 100
        /\ jobs[j].result = ResultPayload(2)

\* C36: in every reachable state of the system (tracker, worker and cancel
\* requests) a job whose status is Pending or Processing has completed_at
\* null: completed_at is non-null only for jobs in a terminal status.
CompletedAtOnlyOnTerminalJobs ==
    \A j \in DOMAIN jobs :
        jobs[j].status \in {PENDING, PROCESSING} => jobs[j].completed_at = NoTime

\* the paths on disk at or below the upload directory of job j
upload_paths(j) == {q \in DOMAIN disk : below(temp_upload_dir(j), q)}

\* C31: when _process_dicom_background has finished, with the job
\* Completed, Failed or cancelled meanwhile, the upload directory it was
\* given and everything in it is gone; it is gone as well once the endpoint
\* has failed while saving the uploads; until then the directory and the
\* saved uploads are there for the worker.
UploadDirectoryRemoved ==
    \A j \in SysIds :
        /\ worker[j].pc \in {"done", "rejected"} => upload_paths(j) = {}
        /\ worker[j].pc \in WorkerRunning =>
               Cardinality(upload_paths(j)) = worker[j].total + 1

\* C31 witness: the worker of a job of two files that was cancelled while
\* it ran has finished and nothing of its upload directory is left
UploadsRemovedAfterCancelledRun ==
    \E j \in SysIds \cap DOMAIN jobs :
        /\ worker[j].pc = "done"
        /\ worker[j].total = 2
        /\ j \in cancel_recorded
        /\ jobs[j].status \in TerminalStatuses
        /\ upload_paths(j) = {}

----------------------------------------------------------------------------
(* SpecPoll: GET /jobs/{job_id} against a worker thread that is inside     *)
(* update_status or set_error on the same job.                             *)
(*                                                                         *)
(* get_job returns, under the lock, the JobProgress object that is stored  *)
(* in the registry, not a copy; the handler returns it and the response is *)
(* built from its fields after the lock is released.  update_status and    *)
(* set_error assign the fields of that same object one statement at a      *)
(* time while they hold the lock.  A step of the writer is one statement,  *)
(* a step of the poll is the read of one field, in declaration order.      *)

PollId == 1

PCreateJob ==
    /\ next_id = PollId
    /\ jobs' = create_job(jobs, next_id, "{op}", now)
    /\ last_create' = CreateJobCall(jobs, next_id)
    /\ next_id' = next_id + 1
    /\ UNCHANGED <<now, sysVars, pollVars>>
    /\ UNCHANGED callVars
    /\ UNCHANGED batchVars

LockFree == writer.pc = "idle"

\* the worker thread of the job enters a tracker call: lock taken, token
\* found.  Its calls are those of _process_dicom_background for a run that
\* starts and then either completes or raises.
WriterEnter(phase, next, pc, status, progress, message, error) ==
    /\ LockFree
    /\ writer.phase = phase
    /\ PollId \in DOMAIN jobs
    /\ writer' = [pc |-> pc, phase |-> next, status |-> status,
                  progress |-> progress, message |-> message, error |-> error]
    /\ UNCHANGED <<trackerVars, sysVars, poll, committed>>
    /\ UNCHANGED callVars
    /\ UNCHANGED batchVars

\* update_status(job_id, PROCESSING, progress=5, ...)
UpdateStartEnter ==
    WriterEnter("start", "running", "status", PROCESSING, {5}, "Initialisation...", None)

\* update_status(job_id, COMPLETED, progress=100, ...)
UpdateCompleteEnter ==
    WriterEnter("running", "ended", "status", COMPLETED, {100},
                "Traitement termine avec succes!", None)

\* set_error(job_id, ...)
SetErrorEnter ==
    WriterEnter("running", "ended", "error", FAILED, {}, None,
                "Erreur lors du traitement.")

WriterNext(pc) ==
    CASE pc = "status"       -> "progress"
      [] pc = "progress"     -> "message"
      [] pc = "message"      -> "started_at"
      [] pc = "started_at"   -> "completed_at"
      [] pc = "completed_at" -> "release"
      [] pc = "error"        -> "error_status"
      [] pc = "error_status" -> "error_completed_at"
      [] pc = "error_completed_at" -> "release"

\* the statement of update_status / set_error the writer is at
WriterAssign(job, w, t) ==
    CASE w.pc = "status" -> [job EXCEPT !.status = w.status]
      [] w.pc = "progress" ->
            IF w.progress # {}
            THEN [job EXCEPT !.progress_percent =
                    min(100, max(0, CHOOSE p \in w.progress : TRUE))]
            ELSE job
      [] w.pc = "message" ->
            IF w.message # None THEN [job EXCEPT !.message = w.message] ELSE job
      [] w.pc = "started_at" ->
            IF w.status = PROCESSING /\ job.started_at = NoTime
            THEN [job EXCEPT !.started_at = t]
            ELSE job
      [] w.pc = "completed_at" ->
            IF w.status \in TerminalStatuses
            THEN [job EXCEPT !.completed_at = t,
                             !.progress_percent =
                                 IF w.status = COMPLETED THEN 100 ELSE @]
            ELSE job
      [] w.pc = "error" -> [job EXCEPT !.error = w.error]
      [] w.pc = "error_status" -> [job EXCEPT !.status = FAILED]
      [] w.pc = "error_completed_at" -> [job EXCEPT !.completed_at = t]

WriterStep ==
    /\ writer.pc \notin {"idle", "release"}
    /\ jobs' = [jobs EXCEPT ![PollId] = WriterAssign(jobs[PollId], writer, now)]
    /\ writer' = [writer EXCEPT !.pc = WriterNext(writer.pc)]
    /\ UNCHANGED <<now, next_id, last_create, sysVars, poll, committed>>
    /\ UNCHANGED callVars
    /\ UNCHANGED batchVars

\* the call returns and the lock is released
WriterRelease ==
    /\ writer.pc = "release"
    /\ writer' = WriterIdle(writer.phase)
    /\ committed' = IF poll.pc \notin {"idle", "done"}
                    THEN committed \cup {jobs[PollId]}
                    ELSE committed
    /\ UNCHANGED <<trackerVars, sysVars, poll>>
    /\ UNCHANGED callVars
    /\ UNCHANGED batchVars

\* get_job_status: job_tracker.get_job(job_id) under the lock; the fields
\* of the returned object have not been read yet
PollGet ==
    /\ poll.pc = "idle"
    /\ LockFree
    /\ poll' = IF get_job(jobs, PollId) = {}
               THEN [pc |-> "done", job |-> {}]
               ELSE [pc |-> "status", job |-> get_job(jobs, PollId)]
    /\ committed' = get_job(jobs, PollId)
    /\ UNCHANGED <<trackerVars, sysVars, writer>>
    /\ UNCHANGED callVars
    /\ UNCHANGED batchVars

PollNext(pc) ==
    CASE pc = "status"           -> "progress_percent"
      [] pc = "progress_percent" -> "message"
      [] pc = "message"          -> "started_at"
      [] pc = "started_at"       -> "completed_at"
      [] pc = "completed_at"     -> "error"
      [] pc = "error"            -> "done"

\* the response is built: one field of the live object is read
PollRead ==
    /\ poll.pc \notin {"idle", "done"}
    /\ poll' = [pc  |-> PollNext(poll.pc),
                job |-> {[seen EXCEPT ![poll.pc] = jobs[PollId][poll.pc]] :
                            seen \in poll.job}]
    /\ UNCHANGED <<trackerVars, sysVars, writer, committed>>
    /\ UNCHANGED callVars
    /\ UNCHANGED batchVars

\* the response is sent; the next poll may start
PollRespond ==
    /\ poll.pc = "done"
    /\ poll' = PollIdle
    /\ committed' = {}
    /\ UNCHANGED <<trackerVars, sysVars, writer>>
    /\ UNCHANGED callVars
    /\ UNCHANGED batchVars

NextPoll ==
    \/ Tick
    \/ PCreateJob
    \/ UpdateStartEnter
    \/ UpdateCompleteEnter
    \/ SetErrorEnter
    \/ WriterStep
    \/ WriterRelease
    \/ PollGet
    \/ PollRead
    \/ PollRespond

SpecPoll == Init /\ [][NextPoll]_vars

\* C4: a status poll that interleaves with update_status or set_error
\* answers with the field values of one single job state that existed
\* between two complete tracker operations.
PollSeesOneCommittedState ==
    poll.pc = "done" => poll.job \subseteq committed


----------------------------------------------------------------------------
(* SpecCalls: the fields of one job under every argument of the tracker    *)
(* calls.  A client creates one job, with or without metadata, and calls   *)
(* update_status on its token with any status, with the progress absent,   *)
(* negative, below 100 or above 100, with and without a message, and       *)
(* set_result, set_error and delete_job, while the clock advances.  `call` *)
(* is the call that has just returned.                                     *)

JobToken == 1

TrackerCall(op, job_id, status, progress, message, value) ==
    [op |-> op, job_id |-> job_id, status |-> status, progress |-> progress,
     message |-> message, value |-> value]

\* progress: Optional[int] = None, or an integer of any sign and size
ProgressArgs == {{}, {-5}, {40}, {150}}

\* message: Optional[str] = None
MessageArgs == {None, "half"}

\* metadata: Optional[dict] = None
MetadataArgs == {None, "{op}"}

KCreateJob ==
    \E metadata \in MetadataArgs :
        /\ next_id = JobToken
        /\ jobs' = create_job(jobs, next_id, metadata, now)
        /\ next_id' = next_id + 1
        /\ call' = TrackerCall("create_job", next_id, None, {}, None, metadata)
        /\ UNCHANGED <<now, last_create, sysVars, response>>
        /\ UNCHANGED pollVars
        /\ UNCHANGED batchVars

KUpdateStatus ==
    \E status \in JobStatus, progress \in ProgressArgs, message \in MessageArgs :
        /\ jobs' = update_status(jobs, JobToken, status, progress, message, now)
        /\ call' = TrackerCall("update_status", JobToken, status, progress, message, None)
        /\ UNCHANGED <<now, next_id, last_create, sysVars, response>>
        /\ UNCHANGED pollVars
        /\ UNCHANGED batchVars

KSetResult ==
    /\ jobs' = set_result(jobs, JobToken, "{zip}")
    /\ call' = TrackerCall("set_result", JobToken, None, {}, None, "{zip}")
    /\ UNCHANGED <<now, next_id, last_create, sysVars, response>>
    /\ UNCHANGED pollVars
    /\ UNCHANGED batchVars

KSetError ==
    /\ jobs' = set_error(jobs, JobToken, "boom", now)
    /\ call' = TrackerCall("set_error", JobToken, None, {}, None, "boom")
    /\ UNCHANGED <<now, next_id, last_create, sysVars, response>>
    /\ UNCHANGED pollVars
    /\ UNCHANGED batchVars

KDeleteJob ==
    /\ jobs' = delete_job(jobs, JobToken)
    /\ call' = TrackerCall("delete_job", JobToken, None, {}, None, None)
    /\ UNCHANGED <<now, next_id, last_create, sysVars, response>>
    /\ UNCHANGED pollVars
    /\ UNCHANGED batchVars

NextCalls ==
    \/ Tick
    \/ KCreateJob
    \/ KUpdateStatus
    \/ KSetResult
    \/ KSetError
    \/ KDeleteJob

SpecCalls == Init /\ [][NextCalls]_vars

\* the call that has just returned is `op` on a job of the registry
Returned(op) == call.op = op /\ call.job_id \in DOMAIN jobs

\* C11: immediately after create_job the new job is Pending with progress
\* 0, started_at, completed_at, result and error null, and it carries the
\* metadata passed at creation (an empty dict when none was passed).
CreatedJobIsFresh ==
    Returned("create_job") =>
        LET job == jobs[call.job_id]
        IN  /\ job.job_id = call.job_id
            /\ job.status = PENDING
            /\ job.progress_percent = 0
            /\ job.started_at = NoTime
            /\ job.completed_at = NoTime
            /\ job.result = None
            /\ job.error = None
            /\ job.metadata = IF call.value = None THEN "{}" ELSE call.value

\* a job has just been created with metadata
CreatedWithMetadata ==
    /\ Returned("create_job")
    /\ call.value = "{op}"
    /\ jobs[call.job_id].metadata = "{op}"

\* C12: update_status(token, Completed, ...) on an existing job leaves
\* progress_percent equal to 100 and completed_at set, whatever the
\* progress the job had before and whatever progress argument is passed
\* (absent, below 100, above 100 or negative).
CompletedUpdateSetsFullProgress ==
    (Returned("update_status") /\ call.status = COMPLETED) =>
        /\ jobs[call.job_id].progress_percent = 100
        /\ jobs[call.job_id].completed_at # NoTime

\* after update_status(Processing, 40), update_status(Completed, 40) has
\* returned and the progress is 100
CompletedWithLowerProgressArgument ==
    /\ Returned("update_status")
    /\ call.status = COMPLETED
    /\ call.progress = {40}
    /\ jobs[call.job_id].started_at # NoTime
    /\ jobs[call.job_id].progress_percent = 100

\* the value the contract gives a progress argument p: p cut to 0..100
Clamped(p) == IF p < 0 THEN 0 ELSE IF p > 100 THEN 100 ELSE p

\* C14: progress_percent of every job is within 0..100 in every reachable
\* state; update_status stores its progress argument cut to 0..100 (100
\* when the status is Completed) and no other call writes the field.
ProgressWithinPercentRange ==
    /\ \A id \in DOMAIN jobs : jobs[id].progress_percent \in 0..100
    /\ (Returned("update_status") /\ call.progress # {} /\ call.status # COMPLETED) =>
           \A p \in call.progress : jobs[call.job_id].progress_percent = Clamped(p)

\* update_status has returned from a call with a negative progress
NegativeProgressStoredAsZero ==
    /\ Returned("update_status")
    /\ call.progress = {-5}
    /\ jobs[call.job_id].progress_percent = 0

\* C15: started_at of a job is null until the first update_status call
\* with status Processing on it, that call sets it to the current time, and
\* no later call on the job changes it.
StartedAtSetOnceByProcessing ==
    [][\A id \in DOMAIN jobs \cap DOMAIN jobs' :
          IF jobs[id].started_at # NoTime
          THEN jobs'[id].started_at = jobs[id].started_at
          ELSE IF call'.op = "update_status" /\ call'.job_id = id /\ call'.status = PROCESSING
               THEN jobs'[id].started_at = now
               ELSE jobs'[id].started_at = NoTime]_vars

\* a job that started, reached a terminal status at a later time and was
\* then updated to Processing again still has its first started_at
ProcessingAgainAfterTerminal ==
    \E id \in DOMAIN jobs :
        /\ jobs[id].status = PROCESSING
        /\ jobs[id].started_at # NoTime
        /\ jobs[id].started_at < jobs[id].completed_at
        /\ jobs[id].result # None

\* C37: in every registry state reached by complete tracker operations,
\* whatever the sequence of update_status, set_result and set_error calls
\* and their arguments, a job whose status is Completed has
\* progress_percent equal to 100.
CompletedJobsAreAtFullProgress ==
    \A id \in DOMAIN jobs :
        jobs[id].status = COMPLETED => jobs[id].progress_percent = 100

\* C37 witness: a job that failed and was then completed with a progress
\* argument of 40 has been given a result
CompletedAfterErrorThenResult ==
    /\ Returned("set_result")
    /\ jobs[call.job_id].status = COMPLETED
    /\ jobs[call.job_id].error = "boom"
    /\ jobs[call.job_id].result = "{zip}"
    /\ jobs[call.job_id].progress_percent = 100

----------------------------------------------------------------------------
(* SpecFrame: what a tracker call leaves alone.  A client creates up to    *)
(* MaxFrameJobs jobs and calls update_status(Processing, 40, "half"),      *)
(* set_result, set_error and delete_job on the tokens 1..MaxFrameJobs + 1  *)
(* (the last one is never issued), and asks GET /jobs/{job_id} for them;   *)
(* the clock does not advance.                                             *)

FrameIds == 1..(MaxFrameJobs + 1)

\* GET /jobs/{job_id}
get_job_status(J, job_id) ==
    LET job == get_job(J, job_id)
    IN  IF job = {}
        THEN [status_code |-> 404, body |-> <<>>]
        ELSE [status_code |-> 200, body |-> <<CHOOSE j \in job : TRUE>>]

FCreateJob ==
    /\ next_id <= MaxFrameJobs
    /\ jobs' = create_job(jobs, next_id, "{op}", now)
    /\ next_id' = next_id + 1
    /\ call' = TrackerCall("create_job", next_id, None, {}, None, "{op}")
    /\ response' = NoResponse
    /\ UNCHANGED <<now, last_create, sysVars>>
    /\ UNCHANGED pollVars
    /\ UNCHANGED batchVars

FUpdateStatus ==
    \E job_id \in FrameIds :
        /\ jobs' = update_status(jobs, job_id, PROCESSING, {40}, "half", now)
        /\ call' = TrackerCall("update_status", job_id, PROCESSING, {40}, "half", None)
        /\ response' = NoResponse
        /\ UNCHANGED <<now, next_id, last_create, sysVars>>
        /\ UNCHANGED pollVars
        /\ UNCHANGED batchVars

FSetResult ==
    \E job_id \in FrameIds :
        /\ jobs' = set_result(jobs, job_id, "{zip}")
        /\ call' = TrackerCall("set_result", job_id, None, {}, None, "{zip}")
        /\ response' = NoResponse
        /\ UNCHANGED <<now, next_id, last_create, sysVars>>
        /\ UNCHANGED pollVars
        /\ UNCHANGED batchVars

FSetError ==
    \E job_id \in FrameIds :
        /\ jobs' = set_error(jobs, job_id, "boom", now)
        /\ call' = TrackerCall("set_error", job_id, None, {}, None, "boom")
        /\ response' = NoResponse
        /\ UNCHANGED <<now, next_id, last_create, sysVars>>
        /\ UNCHANGED pollVars
        /\ UNCHANGED batchVars

FDeleteJob ==
    \E job_id \in FrameIds :
        /\ jobs' = delete_job(jobs, job_id)
        /\ call' = TrackerCall("delete_job", job_id, None, {}, None, None)
        /\ response' = NoResponse
        /\ UNCHANGED <<now, next_id, last_create, sysVars>>
        /\ UNCHANGED pollVars
        /\ UNCHANGED batchVars

FGetJobStatus ==
    \E job_id \in FrameIds :
        /\ response' = get_job_status(jobs, job_id)
        /\ call' = TrackerCall("get_job", job_id, None, {}, None, None)
        /\ UNCHANGED <<trackerVars, sysVars>>
        /\ UNCHANGED pollVars
        /\ UNCHANGED batchVars

NextFrame ==
    \/ FCreateJob
    \/ FUpdateStatus
    \/ FSetResult
    \/ FSetError
    \/ FDeleteJob
    \/ FGetJobStatus

SpecFrame == Init /\ [][NextFrame]_vars

\* this step is the call `op` on a token the registry does not hold
CallOnAbsent(op) == call'.op = op /\ call'.job_id \notin DOMAIN jobs

\* this step is the call `op` on a job of the registry
CallOnJob(op) == call'.op = op /\ call'.job_id \in DOMAIN jobs

\* C13: update_status, set_result, set_error and delete_job called with a
\* token that is not in the registry leave the whole registry unchanged
\* (no record is created); get_job on such a token returns absent and
\* GET /jobs/{job_id} answers 404.
AbsentTokenCallsChangeNothing ==
    [][/\ (\E op \in {"update_status", "set_result", "set_error", "delete_job"} :
                CallOnAbsent(op)) => jobs' = jobs
       /\ CallOnAbsent("get_job") =>
              /\ get_job(jobs, call'.job_id) = {}
              /\ response'.status_code = 404
              /\ response'.body = <<>>
              /\ jobs' = jobs]_vars

\* set_result has just returned from a call on a token that is not among
\* the two jobs of the registry
AbsentTokenCalledBesideTwoJobs ==
    /\ call.op = "set_result"
    /\ call.job_id \notin DOMAIN jobs
    /\ Cardinality(DOMAIN jobs) > 1

\* C16: set_error on an existing job sets its error text, its status to
\* Failed and its completed_at, and leaves its progress_percent, message,
\* started_at, result and every other job unchanged.
SetErrorWritesThreeFields ==
    [][CallOnJob("set_error") =>
          LET id == call'.job_id
          IN  /\ DOMAIN jobs' = DOMAIN jobs
              /\ \A other \in DOMAIN jobs \ {id} : jobs'[other] = jobs[other]
              /\ jobs'[id].error = call'.value
              /\ jobs'[id].status = FAILED
              /\ jobs'[id].completed_at = now
              /\ jobs'[id].progress_percent = jobs[id].progress_percent
              /\ jobs'[id].message = jobs[id].message
              /\ jobs'[id].started_at = jobs[id].started_at
              /\ jobs'[id].result = jobs[id].result
              /\ jobs'[id].job_id = jobs[id].job_id
              /\ jobs'[id].created_at = jobs[id].created_at
              /\ jobs'[id].metadata = jobs[id].metadata]_vars

\* set_error has just returned on a started job that has progress 40, a
\* message and a result, beside another job
SetErrorOnRunningJobBesideAnother ==
    /\ Returned("set_error")
    /\ jobs[call.job_id].status = FAILED
    /\ jobs[call.job_id].error = "boom"
    /\ jobs[call.job_id].progress_percent = 40
    /\ jobs[call.job_id].message = "half"
    /\ jobs[call.job_id].started_at # NoTime
    /\ jobs[call.job_id].result = "{zip}"
    /\ Cardinality(DOMAIN jobs) > 1

----------------------------------------------------------------------------
(* SpecList: GET /jobs.  A client creates up to MaxListJobs jobs while the *)
(* clock advances, fails some of them with set_error, and lists the jobs   *)
(* with no filter or with a status filter and with any limit from -1 to    *)
(* one above the cap of the endpoint.                                      *)

ListIds == 1..MaxListJobs

\* status: Optional[JobStatus] = None
StatusArgs == {None, PENDING, FAILED}

\* limit: int, unvalidated
LimitArgs == (0 - 1)..(max_limit + 1)

\* jobs.sort(key=created_at, reverse=True) on the list of the dict's values:
\* a is placed before b.  The sort is stable, also with reverse=True.
lists_before(J, a, b) ==
    \/ J[a].created_at > J[b].created_at
    \/ J[a].created_at = J[b].created_at /\ a < b

\* seq[:limit]
slice_to(seq, limit) ==
    SubSeq(seq, 1, IF limit >= 0 THEN min(limit, Len(seq))
                   ELSE max(0, Len(seq) + limit))

list_jobs(J, status, limit) ==
    LET kept == {id \in DOMAIN J : status = None \/ J[id].status = status}
        rank(id) == 1 + Cardinality({b \in kept : lists_before(J, b, id)})
        sorted == [i \in 1..Cardinality(kept) |->
                     J[CHOOSE id \in kept : rank(id) = i]]
    IN  slice_to(sorted, limit)

\* GET /jobs
list_jobs_endpoint(J, status, limit) ==
    LET capped == IF limit > max_limit THEN max_limit ELSE limit
        found == list_jobs(J, status, capped)
    IN  [status_code |-> 200, total |-> Len(found), body |-> found]

ListCall(status, limit) == [op |-> "list_jobs", status |-> status, limit |-> limit]

LCreateJob ==
    /\ next_id <= MaxListJobs
    /\ jobs' = create_job(jobs, next_id, "{op}", now)
    /\ next_id' = next_id + 1
    /\ call' = NoCall
    /\ response' = NoResponse
    /\ UNCHANGED <<now, last_create, sysVars>>
    /\ UNCHANGED pollVars
    /\ UNCHANGED batchVars

LSetError ==
    \E job_id \in ListIds :
        /\ jobs' = set_error(jobs, job_id, "boom", now)
        /\ call' = NoCall
        /\ response' = NoResponse
        /\ UNCHANGED <<now, next_id, last_create, sysVars>>
        /\ UNCHANGED pollVars
        /\ UNCHANGED batchVars

LListJobs ==
    \E status \in StatusArgs, limit \in LimitArgs :
        /\ response' = list_jobs_endpoint(jobs, status, limit)
        /\ call' = ListCall(status, limit)
        /\ UNCHANGED <<trackerVars, sysVars>>
        /\ UNCHANGED pollVars
        /\ UNCHANGED batchVars

NextList ==
    \/ Tick
    \/ LCreateJob
    \/ LSetError
    \/ LListJobs

SpecList == Init /\ [][NextList]_vars

\* C17: GET /jobs returns exactly the jobs whose status equals the filter
\* (all jobs without a filter), newest first, cut to the first `limit`
\* entries, and never more jobs than the cap, whatever limit is passed.
ListedNewestFirstAndCapped ==
    call.op = "list_jobs" =>
        LET matching == {id \in DOMAIN jobs :
                            call.status = None \/ jobs[id].status = call.status}
            out == response.body
            first == min(Cardinality(matching), max(0, min(call.limit, max_limit)))
        IN  /\ Len(out) <= max_limit
            /\ Len(out) = first
            /\ \A i \in 1..Len(out) :
                   /\ out[i].job_id \in matching
                   /\ out[i] = jobs[out[i].job_id]
            /\ \A i, k \in 1..Len(out) :
                   i < k => /\ out[i].job_id # out[k].job_id
                            /\ out[i].created_at >= out[k].created_at
            /\ \A id \in matching :
                   (\A i \in 1..Len(out) : out[i].job_id # id) =>
                       \A i \in 1..Len(out) : out[i].created_at >= jobs[id].created_at

----------------------------------------------------------------------------
(* app/routers/api_batch.py: paths.                                        *)
(*                                                                         *)
(* A path is a sequence of components and a component is a sequence of     *)
(* pieces of text, so that "scan.dcm" is <<"scan", ".dcm">> and a prefix   *)
(* of a name is a prefix of its pieces.  Every path of the model is        *)
(* absolute except the member names of an archive.  Accents of the         *)
(* messages are dropped.                                                   *)

ParentDir == <<"..">>

\* tempfile.mkdtemp()
temp_dir == << <<"tmp">>, <<"tmpbatch">> >>

extract_dir == Append(temp_dir, <<"extracted">>)

\* os.path.abspath of an absolute path: ".." removes the component before it
RECURSIVE abspath(_)
abspath(path) ==
    IF path = <<>> THEN <<>>
    ELSE LET head == abspath(SubSeq(path, 1, Len(path) - 1))
             last == path[Len(path)]
         IN  IF last # ParentDir THEN Append(head, last)
             ELSE IF head = <<>> THEN <<>>
             ELSE SubSeq(head, 1, Len(head) - 1)

\* str.startswith on two names
name_startswith(name, prefix) ==
    /\ Len(prefix) <= Len(name)
    /\ SubSeq(name, 1, Len(prefix)) = prefix

\* str.startswith on two absolute paths written with "/" between components
path_startswith(file, base) ==
    \/ base = <<>>
    \/ /\ Len(base) <= Len(file)
       /\ SubSeq(file, 1, Len(base) - 1) = SubSeq(base, 1, Len(base) - 1)
       /\ name_startswith(file[Len(base)], base[Len(base)])

is_safe_path(base_path, file_path) ==
    path_startswith(abspath(file_path), abspath(base_path))

\* where ZipFile.extract(member, path) writes: the member name without its
\* ".." components, under path
extract_target(path, filename) ==
    join(path, SelectSeq(filename, LAMBDA c : c # ParentDir))

----------------------------------------------------------------------------
(* extract_zip_safely.  An uploaded archive is [is_zipfile, compressed_size,*)
(* infolist], a member [filename, is_dir, file_size].  The content of the  *)
(* saved upload is 0, the content of the n-th member is n.  `fault` is the *)
(* member at which ZipFile.extract raises, 0 when none does and -1 when    *)
(* ZipFile() itself raises BadZipFile on opening the saved upload.         *)

zip_path == join(extract_dir, << <<"upload", ".zip">> >>)

RECURSIVE sum_file_size(_)
sum_file_size(infolist) ==
    IF infolist = <<>> THEN 0
    ELSE infolist[1].file_size + sum_file_size(Tail(infolist))

ExtractReturn(success, error_message, extracted_files, files) ==
    [success |-> success, error_message |-> error_message,
     extracted_files |-> extracted_files, disk |-> files]

\* the loop over the first n members: the paths collected, the files
\* written, whether ZipFile.extract has raised
RECURSIVE extract_members(_, _, _, _)
extract_members(infolist, n, files, fault) ==
    IF n = 0 THEN [extracted_files |-> <<>>, disk |-> files, raised |-> FALSE]
    ELSE LET before == extract_members(infolist, n - 1, files, fault)
             member == infolist[n]
             member_path == join(extract_dir, member.filename)
         IN  IF before.raised THEN before
             ELSE IF member.is_dir THEN before
             ELSE IF ~is_safe_path(extract_dir, member_path) THEN before
             ELSE IF fault = n THEN [before EXCEPT !.raised = TRUE]
             ELSE [extracted_files |-> Append(before.extracted_files, member_path),
                   disk |-> write_file(before.disk,
                                       extract_target(extract_dir, member.filename), n),
                   raised |-> FALSE]

extract_zip_safely(zip_file, files, fault) ==
    LET saved == write_file(files, zip_path, 0)
        compressed_size == zip_file.compressed_size
        uncompressed_size == sum_file_size(zip_file.infolist)
        loop == extract_members(zip_file.infolist, Len(zip_file.infolist), saved, fault)
    IN  IF ~zip_file.is_zipfile
        THEN ExtractReturn(FALSE, "Le fichier n'est pas un ZIP valide", <<>>, saved)
        ELSE IF fault < 0
        THEN ExtractReturn(FALSE, "Fichier ZIP corrompu", <<>>, saved)
        ELSE IF uncompressed_size > MAX_EXTRACTION_SIZE
        THEN ExtractReturn(FALSE, "Le ZIP est trop volumineux", <<>>, saved)
        ELSE IF compressed_size > 0
                /\ uncompressed_size > MAX_COMPRESSION_RATIO * compressed_size
        THEN ExtractReturn(FALSE, "ZIP suspect detecte (ratio de compression trop eleve)",
                           <<>>, saved)
        ELSE IF Len(zip_file.infolist) > MAX_FILES_IN_ZIP
        THEN ExtractReturn(FALSE, "Trop de fichiers dans le ZIP", <<>>, saved)
        ELSE IF loop.raised
        THEN ExtractReturn(FALSE, "Erreur lors de l'extraction", <<>>, loop.disk)
        ELSE ExtractReturn(TRUE, "", loop.extracted_files, remove_file(loop.disk, zip_path))

----------------------------------------------------------------------------
(* SpecExtract: extract_zip_safely on any small upload.  The upload is not *)
(* a ZIP file, or a ZIP file of up to MaxMembers members taken among a     *)
(* small file, a file almost as large as MAX_EXTRACTION_SIZE, a directory  *)
(* entry and files named outside the destination (one level up, two levels *)
(* up, and in the sibling directory "extracted_evil") and a file named     *)
(* upload.zip, its size on disk 1 or 2; or a ZIP file of size 3 holding    *)
(* one member MAX_FILES_IN_ZIP + 1 times.  ZipFile.extract may raise at    *)
(* any member, so also at and after a member written over the saved        *)
(* upload, from which the archive is being read.                           *)

Member(filename, is_dir, file_size) ==
    [filename |-> filename, is_dir |-> is_dir, file_size |-> file_size]

ExtractMembers ==
    { Member(<< <<"scan", ".dcm">> >>, FALSE, 1),
      Member(<< <<"rec", ".dat">> >>, FALSE, MAX_EXTRACTION_SIZE - 1),
      Member(<< <<"sub">> >>, TRUE, 0),
      Member(<< ParentDir, <<"evil", ".txt">> >>, FALSE, 1),
      Member(<< ParentDir, ParentDir, <<"etc">>, <<"passwd">> >>, FALSE, 1),
      Member(<< ParentDir, <<"extracted", "_evil">>, <<"x", ".txt">> >>, FALSE, 1),
      Member(<< <<"upload", ".zip">> >>, FALSE, 1) }

SeqsUpTo(S, n) == UNION {[1..k -> S] : k \in 0..n}

NotAZip == [is_zipfile |-> FALSE, compressed_size |-> 1, infolist |-> <<>>]

ZipFiles(Members, Sizes, n) ==
    {[is_zipfile |-> TRUE, compressed_size |-> c, infolist |-> l] :
        c \in Sizes, l \in SeqsUpTo(Members, n)}

\* archives with one member too many
OverfullZips(Members) ==
    {[is_zipfile |-> TRUE, compressed_size |-> 3,
      infolist |-> [i \in 1..(MAX_FILES_IN_ZIP + 1) |-> m]] : m \in Members}

ExtractUploads ==
    {NotAZip} \cup ZipFiles(ExtractMembers, {1, 2}, MaxMembers)
        \cup OverfullZips(ExtractMembers)

ExtractionOf(zip_file, fault, ret) ==
    [returned |-> TRUE, zip_file |-> zip_file, fault |-> fault,
     success |-> ret.success, error_message |-> ret.error_message,
     extracted_files |-> ret.extracted_files]

EExtract ==
    /\ ~extraction.returned
    /\ \E zip_file \in ExtractUploads :
           \E fault \in (0 - 1)..Len(zip_file.infolist) :
               LET ret == extract_zip_safely(zip_file, disk, fault)
               IN  /\ disk' = ret.disk
                   /\ extraction' = ExtractionOf(zip_file, fault, ret)
    /\ UNCHANGED batch
    /\ UNCHANGED <<trackerVars, sysVars>>
    /\ UNCHANGED pollVars
    /\ UNCHANGED callVars

NextExtract == EExtract

SpecExtract == Init /\ [][NextExtract]_vars

too_large(zip_file) == sum_file_size(zip_file.infolist) > MAX_EXTRACTION_SIZE

too_compressed(zip_file) ==
    sum_file_size(zip_file.infolist) > MAX_COMPRESSION_RATIO * zip_file.compressed_size

too_many(zip_file) == Len(zip_file.infolist) > MAX_FILES_IN_ZIP

\* C20: extract_zip_safely writes no archive member to disk unless the
\* size, ratio and count checks have all passed; when one of them rejects
\* the archive it returns failure with an empty path list and leaves no
\* file at all in the destination root.
RejectedArchiveLeavesNoFile ==
    extraction.returned =>
        LET zip_file == extraction.zip_file
            rejected == too_large(zip_file) \/ too_compressed(zip_file) \/ too_many(zip_file)
        IN  /\ (DOMAIN disk \ {zip_path} # {}) => ~rejected
            /\ (zip_file.is_zipfile /\ extraction.fault >= 0 /\ rejected) =>
                   /\ ~extraction.success
                   /\ extraction.extracted_files = <<>>
                   /\ DOMAIN disk = {}

\* true directory containment: the resolved path is strictly below root
is_descendant(root, path) ==
    LET resolved == abspath(path)
    IN  /\ Len(root) < Len(resolved)
        /\ SubSeq(resolved, 1, Len(root)) = root

\* the member paths of the regular files of infolist that resolve below root
RECURSIVE members_inside(_, _)
members_inside(root, infolist) ==
    IF infolist = <<>> THEN <<>>
    ELSE LET member_path == join(root, infolist[1].filename)
             rest == members_inside(root, Tail(infolist))
         IN  IF ~infolist[1].is_dir /\ is_descendant(root, member_path)
             THEN <<member_path>> \o rest
             ELSE rest

\* C21: for every archive accepted by extract_zip_safely, every returned
\* path is a descendant of the destination root (true directory
\* containment); a member that resolves outside the root is left out
\* without failing the extraction, and every other regular member is
\* returned.
ReturnedPathsAreDescendants ==
    (extraction.returned /\ extraction.success) =>
        /\ \A i \in 1..Len(extraction.extracted_files) :
               is_descendant(extract_dir, extraction.extracted_files[i])
        /\ extraction.extracted_files =
               members_inside(extract_dir, extraction.zip_file.infolist)

\* C35: after a successful extract_zip_safely every returned path names a
\* file that exists on disk and holds the content of a member of that name,
\* and the saved upload is gone, whatever the members are called, a member
\* named upload.zip included.
ReturnedPathsNameExtractedFiles ==
    (extraction.returned /\ extraction.success) =>
        LET infolist == extraction.zip_file.infolist
            returned == extraction.extracted_files
        IN  /\ \A i \in 1..Len(returned) :
                   LET path == abspath(returned[i])
                   IN  /\ path \in DOMAIN disk
                       /\ \E n \in 1..Len(infolist) :
                              /\ ~infolist[n].is_dir
                              /\ join(extract_dir, infolist[n].filename) = returned[i]
                              /\ disk[path] = n
            /\ \A q \in DOMAIN disk : disk[q] # 0

----------------------------------------------------------------------------
(* categorize_files and group_signal_files *)

IMAGE_EXTENSIONS == {".dcm", ".dicom"}
SIGNAL_EXTENSIONS == {".hea", ".dat", ".qrs", ".edf", ".eeg"}
TEXT_EXTENSIONS == {".csv", ".xlsx", ".docx", ".txt", ".json"}

\* str.lower on the pieces of text the model uses
lower(text) ==
    CASE text = ".DCM" -> ".dcm"
      [] text = ".HEA" -> ".hea"
      [] text = ".TXT" -> ".txt"
      [] text = ".ZIP" -> ".zip"
      [] OTHER -> text

\* the pieces of a name that are an extension: a dot and what follows it
Extensions ==
    IMAGE_EXTENSIONS \cup SIGNAL_EXTENSIONS \cup TEXT_EXTENSIONS
        \cup {".DCM", ".HEA", ".TXT", ".ZIP", ".zip", ".rar", ".xyz"}

\* os.path.basename / Path(file_path).name
basename(file_path) == file_path[Len(file_path)]

\* Path(file_path).suffix: the last extension of the name, "" when the
\* name has none or begins with its only dot
suffix(file_path) ==
    LET name == basename(file_path)
    IN  IF Len(name) > 1 /\ name[Len(name)] \in Extensions
        THEN name[Len(name)]
        ELSE ""

\* Path(file_path).stem: the name without its suffix
stem(file_path) ==
    LET name == basename(file_path)
    IN  IF suffix(file_path) = "" THEN name ELSE SubSeq(name, 1, Len(name) - 1)

Range(seq) == {seq[i] : i \in 1..Len(seq)}

\* the keys of signal_groups in insertion order
RECURSIVE base_names(_)
base_names(files) ==
    IF files = <<>> THEN <<>>
    ELSE LET front == base_names(SubSeq(files, 1, Len(files) - 1))
             base_name == stem(files[Len(files)])
         IN  IF base_name \in Range(front) THEN front ELSE Append(front, base_name)

group_signal_files_last_first(files) ==
    LET keys == base_names(files)
    IN  [g \in 1..Len(keys) |->
            SelectSeq(files, LAMBDA f : stem(f) = keys[Len(keys) + 1 - g])]

group_signal_files(files) ==
    LET keys == base_names(files)
    IN  [g \in 1..Len(keys) |-> SelectSeq(files, LAMBDA f : stem(f) = keys[g])]

categorize_files_case_sensitive(files) ==
    LET ext(f) == suffix(f)
        images == SelectSeq(files, LAMBDA f : ext(f) \in IMAGE_EXTENSIONS)
        signals == SelectSeq(files, LAMBDA f :
                       ext(f) \notin IMAGE_EXTENSIONS /\ ext(f) \in SIGNAL_EXTENSIONS)
        text == SelectSeq(files, LAMBDA f :
                       ext(f) \notin IMAGE_EXTENSIONS \cup SIGNAL_EXTENSIONS
                       /\ ext(f) \in TEXT_EXTENSIONS)
        unknown == SelectSeq(files, LAMBDA f :
                       ext(f) \notin IMAGE_EXTENSIONS \cup SIGNAL_EXTENSIONS
                                        \cup TEXT_EXTENSIONS)
    IN  [images |-> images,
         signals |-> IF signals # <<>> THEN group_signal_files(signals) ELSE <<>>,
         text |-> text,
         unknown |-> unknown]

categorize_files(files) ==
    LET ext(f) == lower(suffix(f))
        images == SelectSeq(files, LAMBDA f : ext(f) \in IMAGE_EXTENSIONS)
        signals == SelectSeq(files, LAMBDA f :
                       ext(f) \notin IMAGE_EXTENSIONS /\ ext(f) \in SIGNAL_EXTENSIONS)
        text == SelectSeq(files, LAMBDA f :
                       ext(f) \notin IMAGE_EXTENSIONS \cup SIGNAL_EXTENSIONS
                       /\ ext(f) \in TEXT_EXTENSIONS)
        unknown == SelectSeq(files, LAMBDA f :
                       ext(f) \notin IMAGE_EXTENSIONS \cup SIGNAL_EXTENSIONS
                                        \cup TEXT_EXTENSIONS)
    IN  [images |-> images,
         signals |-> IF signals # <<>> THEN group_signal_files(signals) ELSE <<>>,
         text |-> text,
         unknown |-> unknown]

----------------------------------------------------------------------------
(* SpecCategorize: categorize_files and group_signal_files on any small    *)
(* list of extracted paths.  A list holds up to MaxPaths paths of mixed     *)
(* kinds (an image, an image with an upper-case extension, a signal file,  *)
(* a text file, a file of an unlisted extension, a file named ".dcm",      *)
(* which has no suffix) or up to MaxSignals signal paths (one stem with    *)
(* the five signal extensions, a second stem, the first stem again in a    *)
(* sub-directory); a path may occur twice.                                 *)

extracted(name) == join(extract_dir, name)

MixedPaths ==
    { extracted(<< <<"a", ".dcm">> >>),
      extracted(<< <<"b", ".DCM">> >>),
      extracted(<< <<"rec001", ".hea">> >>),
      extracted(<< <<"notes", ".txt">> >>),
      extracted(<< <<"mystery", ".xyz">> >>),
      extracted(<< <<".dcm">> >>) }

SignalPaths ==
    { extracted(<< <<"rec001", ext>> >>) : ext \in SIGNAL_EXTENSIONS }
        \cup { extracted(<< <<"rec002", ".hea">> >>),
               extracted(<< <<"sub">>, <<"rec001", ".hea">> >>) }

FileLists == SeqsUpTo(MixedPaths, MaxPaths) \cup SeqsUpTo(SignalPaths, MaxSignals)

FunctionCall(op, files, returned, again) ==
    [op |-> op, files |-> files, returned |-> returned, again |-> again]

\* categorize_files(files), called twice on the same list
GCategorize ==
    /\ call = NoCall
    /\ \E files \in FileLists :
           call' = FunctionCall("categorize_files", files,
                                categorize_files(files), categorize_files(files))
    /\ UNCHANGED response
    /\ UNCHANGED <<trackerVars, sysVars>>
    /\ UNCHANGED pollVars
    /\ UNCHANGED batchVars

\* group_signal_files(files) on a list of signal paths
GGroup ==
    /\ call = NoCall
    /\ \E files \in SeqsUpTo(SignalPaths, MaxSignals) :
           call' = FunctionCall("group_signal_files", files,
                                group_signal_files(files), group_signal_files(files))
    /\ UNCHANGED response
    /\ UNCHANGED <<trackerVars, sysVars>>
    /\ UNCHANGED pollVars
    /\ UNCHANGED batchVars

NextCategorize ==
    \/ GCategorize
    \/ GGroup

SpecCategorize == Init /\ [][NextCategorize]_vars

CategoryNames == {"images", "signals", "text", "unknown"}

\* the paths of a list of groups, group after group
RECURSIVE flatten(_)
flatten(groups) ==
    IF groups = <<>> THEN <<>> ELSE groups[1] \o flatten(Tail(groups))

\* the paths a result of categorize_files holds under a category
placed(categorized, category) ==
    IF category = "signals" THEN flatten(categorized.signals)
    ELSE categorized[category]

occurrences(seq, x) == Cardinality({i \in 1..Len(seq) : seq[i] = x})

\* the category the static table gives to an extension
category_of(ext) ==
    IF ext \in IMAGE_EXTENSIONS THEN "images"
    ELSE IF ext \in SIGNAL_EXTENSIONS THEN "signals"
    ELSE IF ext \in TEXT_EXTENSIONS THEN "text"
    ELSE "unknown"

\* seq with the paths at positions i and j exchanged
exchanged(seq, i, j) ==
    [k \in 1..Len(seq) |-> IF k = i THEN seq[j] ELSE IF k = j THEN seq[i] ELSE seq[k]]

\* C22: categorize_files places every input path in exactly one of images,
\* signals, text, unknown, chosen only by the path's lower-cased extension
\* (an unlisted extension goes to unknown and is kept); the category of a
\* path depends neither on its position nor on the other paths, permuting
\* the input changes no category's set of files, and a second call on the
\* same list gives the same output.  (A permutation is a product of
\* exchanges of two positions, and every list up to the bounds is an input.)
CategorizePlacesEachPathOnce ==
    call.op = "categorize_files" =>
        LET files == call.files
            out == call.returned
            sets == [c \in CategoryNames |-> Range(placed(out, c))]
        IN  /\ DOMAIN out = CategoryNames
            /\ \A c \in CategoryNames :
                   \A f \in Range(files) \cup sets[c] :
                       occurrences(placed(out, c), f) =
                           IF c = category_of(lower(suffix(f)))
                           THEN occurrences(files, f) ELSE 0
            /\ \A f \in Range(files) :
                   LET alone == categorize_files(<<f>>)
                   IN  \A c \in CategoryNames :
                           (f \in sets[c]) <=> (f \in Range(placed(alone, c)))
            /\ \A i \in 1..Len(files) : \A j \in (i + 1)..Len(files) :
                   LET other == categorize_files(exchanged(files, i, j))
                   IN  [c \in CategoryNames |-> Range(placed(other, c))] = sets
            /\ call.again = out

\* C22 witness: a list holding both a.dcm and b.DCM beside a text file has
\* been categorized
CategorizedBothCases ==
    /\ call.op = "categorize_files"
    /\ call.returned.images = << extracted(<< <<"b", ".DCM">> >>),
                                 extracted(<< <<"a", ".dcm">> >>) >>
    /\ call.returned.text # <<>>

\* the position at which a stem first appears in a list of paths
first_seen(files, base_name) ==
    CHOOSE i \in 1..Len(files) :
        /\ stem(files[i]) = base_name
        /\ \A k \in 1..(i - 1) : stem(files[k]) # base_name

\* C23: group_signal_files puts two signal files in the same group if and
\* only if they have the same filename stem; groups are listed in the
\* order their stem first appears in the input, files inside a group keep
\* their input order, and every input file appears in exactly one group
\* exactly once.
GroupsAreTheStemsInFirstSeenOrder ==
    call.op = "group_signal_files" =>
        LET files == call.files
            groups == call.returned
            group_stem == [g \in 1..Len(groups) |-> stem(groups[g][1])]
        IN  /\ \A g \in 1..Len(groups) :
                   /\ groups[g] # <<>>
                   /\ groups[g] = SelectSeq(files, LAMBDA f : stem(f) = group_stem[g])
            /\ \A g, h \in 1..Len(groups) :
                   g < h => first_seen(files, group_stem[g]) < first_seen(files, group_stem[h])
            /\ Len(flatten(groups)) = Len(files)
            /\ \A f \in Range(files) :
                   /\ occurrences(flatten(groups), f) = occurrences(files, f)
                   /\ Cardinality({g \in 1..Len(groups) : f \in Range(groups[g])}) = 1

\* C23 witness: rec001.hea, rec002.hea, rec001.dat have been grouped into
\* (rec001.hea, rec001.dat) and (rec002.hea)
GroupedTwoRecords ==
    /\ call.op = "group_signal_files"
    /\ call.files = << extracted(<< <<"rec001", ".hea">> >>),
                       extracted(<< <<"rec002", ".hea">> >>),
                       extracted(<< <<"rec001", ".dat">> >>) >>
    /\ call.returned = << << extracted(<< <<"rec001", ".hea">> >>),
                            extracted(<< <<"rec001", ".dat">> >>) >>,
                         << extracted(<< <<"rec002", ".hea">> >>) >> >>

\* C24: every signal group produced by categorize_files holds between 1
\* and 3 paths.
SignalGroupsHoldOneToThreePaths ==
    call.op = "categorize_files" =>
        \A g \in 1..Len(call.returned.signals) :
            Len(call.returned.signals[g]) \in 1..3

----------------------------------------------------------------------------
(* process_file_category.  A text (an error message, a response body, the  *)
(* content of a file of the final archive) is a sequence of pieces.  The   *)
(* collaborator's behaviour is `reply`: the exception requests.post raises *)
(* or its response.  The files are read from `files_on_disk`.  A dict is   *)
(* the sequence of its items in insertion order.                           *)

CATEGORIES == <<"images", "signals", "text">>

endpoint_map ==
    [images |-> "/api/v1/images/preprocess_dicom_files/",
     signals |-> "/api/v1/signaux/upload_signals",
     text |-> "/api/v1/text/telecharger_annotations_zip/"]

Raised(exception) ==
    [raised |-> TRUE, status_code |-> 0, content_type |-> <<>>, body |-> exception]

Response(status_code, content_type, body) ==
    [raised |-> FALSE, status_code |-> status_code, content_type |-> content_type,
     body |-> body]

CategoryReturn(success, zip_content, error) ==
    [success |-> success, zip_content |-> zip_content, error |-> error]

\* the paths the function opens, in order: for signals, files is a list of
\* groups
opened_paths(category, files) == IF category = "signals" THEN flatten(files) ELSE files

\* open(file_path, 'rb') succeeds
is_file(files_on_disk, file_path) ==
    file_path \in DOMAIN files_on_disk /\ files_on_disk[file_path] # Directory

process_file_category_reads_outside_try(category, files, files_on_disk, reply) ==
    IF category \notin DOMAIN endpoint_map
    THEN CategoryReturn(FALSE, <<>>, <<"Categorie inconnue: ", category>>)
    ELSE IF \E f \in Range(opened_paths(category, files)) : ~is_file(files_on_disk, f)
    THEN Raised(<<"[Errno 2] No such file or directory">>)
    ELSE IF reply.raised
    THEN CategoryReturn(FALSE, <<>>, reply.body)
    ELSE IF reply.status_code # 200
    THEN LET error_detail ==
                 IF reply.body # <<>>
                 THEN SubSeq(reply.body, 1, min(error_detail_limit, Len(reply.body)))
                 ELSE <<"No error details">>
         IN  CategoryReturn(FALSE, <<>>,
                 <<"Erreur ", ToString(reply.status_code), ": ">> \o error_detail)
    ELSE IF "application/zip" \in Range(reply.content_type)
    THEN CategoryReturn(TRUE, reply.body, <<>>)
    ELSE CategoryReturn(FALSE, <<>>, <<"Reponse inattendue (non-ZIP) pour ", category>>)

\* every exception of the body, the one of open() included, is caught and
\* its text returned as the error
process_file_category(category, files, files_on_disk, reply) ==
    IF category \notin DOMAIN endpoint_map
    THEN CategoryReturn(FALSE, <<>>, <<"Categorie inconnue: ", category>>)
    ELSE IF \E f \in Range(opened_paths(category, files)) : ~is_file(files_on_disk, f)
    THEN CategoryReturn(FALSE, <<>>, <<"[Errno 2] No such file or directory">>)
    ELSE IF reply.raised
    THEN CategoryReturn(FALSE, <<>>, reply.body)
    ELSE IF reply.status_code # 200
    THEN LET error_detail ==
                 IF reply.body # <<>>
                 THEN SubSeq(reply.body, 1, min(error_detail_limit, Len(reply.body)))
                 ELSE <<"No error details">>
         IN  CategoryReturn(FALSE, <<>>,
                 <<"Erreur ", ToString(reply.status_code), ": ">> \o error_detail)
    ELSE IF "application/zip" \in Range(reply.content_type)
    THEN CategoryReturn(TRUE, reply.body, <<>>)
    ELSE CategoryReturn(FALSE, <<>>, <<"Reponse inattendue (non-ZIP) pour ", category>>)

\* dict operations on a sequence of items
Item(key, value) == [key |-> key, value |-> value]

keys(dict) == {dict[i].key : i \in 1..Len(dict)}

value_of(dict, key) == (CHOOSE item \in Range(dict) : item.key = key).value

\* dict[key] = value
dict_set(dict, key, value) ==
    IF key \in keys(dict)
    THEN [i \in 1..Len(dict) |-> IF dict[i].key = key THEN Item(key, value) ELSE dict[i]]
    ELSE Append(dict, Item(key, value))

----------------------------------------------------------------------------
(* SpecCategory: one call of process_file_category with any category name  *)
(* (the three of the endpoint table, "unknown" and a name of no category), *)
(* any list of up to MaxPaths paths (lists of groups for signals) among    *)
(* files that exist, a path that names nothing and a path that names a     *)
(* directory, and any behaviour of the collaborator: an archive, an        *)
(* archive with a parameter after the content type, an empty archive,      *)
(* another content type, no content type, errors with a body shorter than, *)
(* as long as and longer than the part that is kept, an error without      *)
(* body, a timeout, a refused connection.                                  *)

CategoryArgs == {"images", "signals", "text", "unknown", "videos"}

\* the scratch directory when the function is called
CategoryDisk ==
    [q \in {temp_dir, extract_dir, extracted(<< <<"sub">> >>),
            extracted(<< <<"a", ".dcm">> >>), extracted(<< <<"rec", ".hea">> >>),
            extracted(<< <<"rec", ".dat">> >>)} |->
        IF q \in {temp_dir, extract_dir, extracted(<< <<"sub">> >>)} THEN Directory ELSE 1]

CategoryPaths ==
    { extracted(<< <<"a", ".dcm">> >>),
      extracted(<< <<"gone", ".dcm">> >>),
      extracted(<< <<"sub">> >>) }

CategoryGroups ==
    { << extracted(<< <<"rec", ".hea">> >>), extracted(<< <<"rec", ".dat">> >>) >>,
      << extracted(<< <<"gone", ".hea">> >>) >> }

CategoryFiles(category) ==
    IF category = "signals" THEN SeqsUpTo(CategoryGroups, MaxPaths)
    ELSE SeqsUpTo(CategoryPaths, MaxPaths)

CategoryReplies ==
    { Response(200, <<"application/zip">>, <<"PK">>),
      Response(200, <<"application/zip", "; charset=binary">>, <<"PK">>),
      Response(200, <<"application/zip">>, <<>>),
      Response(200, <<"text/html">>, <<"<html>">>),
      Response(200, <<>>, <<"PK">>),
      Response(500, <<"application/json">>, [i \in 1..(error_detail_limit + 1) |-> "e"]),
      Response(500, <<"application/zip">>, [i \in 1..error_detail_limit |-> "e"]),
      Response(422, <<"application/json">>, <<"e">>),
      Response(404, <<>>, <<>>),
      Raised(<<"Read timed out">>),
      Raised(<<"Connection refused">>) }

CategoryCall(category, files, files_on_disk, reply, returned) ==
    [op |-> "process_file_category", category |-> category, files |-> files,
     files_on_disk |-> files_on_disk, reply |-> reply, returned |-> returned]

\* await process_file_category(category, files, api_base_url, temp_dir)
PCategory ==
    /\ call = NoCall
    /\ \E category \in CategoryArgs, reply \in CategoryReplies :
           \E files \in CategoryFiles(category) :
               call' = CategoryCall(category, files, CategoryDisk, reply,
                           process_file_category(category, files, CategoryDisk, reply))
    /\ UNCHANGED response
    /\ UNCHANGED <<trackerVars, sysVars>>
    /\ UNCHANGED pollVars
    /\ UNCHANGED batchVars

NextCategory == PCategory

SpecCategory == Init /\ [][NextCategory]_vars

\* C32: process_file_category never raises, whatever the category name,
\* the file list and the collaborator's behaviour: it returns success, with
\* the response bytes, only when the collaborator answers 200 with a
\* content type containing application/zip; a non-200 answer gives failure
\* with an error text that carries at most the first error_detail_limit
\* pieces of the body; a 200 answer of another content type gives failure;
\* an unknown category, an unreadable file and a transport exception or
\* timeout give failure with empty bytes.
CategoryCallAlwaysReturns ==
    call.op = "process_file_category" =>
        LET ret == call.returned
            reply == call.reply
            known == call.category \in {"images", "signals", "text"}
            paths == IF call.category = "signals" THEN flatten(call.files) ELSE call.files
            readable == \A i \in 1..Len(paths) :
                            /\ paths[i] \in DOMAIN call.files_on_disk
                            /\ call.files_on_disk[paths[i]] # Directory
            answered == known /\ readable /\ ~reply.raised
            is_zip == \E i \in 1..Len(reply.content_type) :
                          reply.content_type[i] = "application/zip"
        IN  /\ DOMAIN ret = {"success", "zip_content", "error"}
            /\ ret.success \in BOOLEAN
            /\ ret.success <=> (answered /\ reply.status_code = 200 /\ is_zip)
            /\ ret.success => ret.zip_content = reply.body
            /\ ~ret.success => ret.zip_content = <<>>
            /\ (answered /\ reply.status_code # 200) =>
                   \E n \in 0..error_detail_limit :
                       /\ n <= Len(reply.body)
                       /\ Len(ret.error) <= 3 + max(1, n)
                       /\ SubSeq(ret.error, 1, 3) =
                              <<"Erreur ", ToString(reply.status_code), ": ">>
                       /\ reply.body # <<>> =>
                              SubSeq(ret.error, 4, Len(ret.error)) = SubSeq(reply.body, 1, n)
            /\ (known /\ readable /\ reply.raised) => ret.error = reply.body

\* C32 witness: the signals endpoint answered 500 with a body longer than
\* the part that is kept, for two groups of readable files
LongErrorBodyCut ==
    /\ call.op = "process_file_category"
    /\ call.category = "signals"
    /\ Len(call.files) = 2
    /\ call.reply.status_code = 500
    /\ Len(call.reply.body) > error_detail_limit
    /\ ~call.returned.success
    /\ call.returned.error =
           <<"Erreur ", "500", ": ">> \o [i \in 1..error_detail_limit |-> "e"]

----------------------------------------------------------------------------
(* The final archive of process_batch_zip.  The tick and the cross of the  *)
(* report are written "v" and "x".                                         *)

outcome_line(category, results, errors) ==
    IF category \in keys(results)
    THEN <<"v ", category, ": Traite avec succes">>
    ELSE IF category \in keys(errors)
    THEN <<"x ", category, ": Erreur - ">> \o value_of(errors, category)
    ELSE <<"- ", category, ": Aucun fichier a traiter">>

unknown_lines_uncapped(unknown) ==
    IF unknown = <<>> THEN <<>>
    ELSE << <<"--- FICHIERS NON RECONNUS ---">> >>
         \o [i \in 1..Len(unknown) |-> <<"  - ">> \o basename(unknown[i])]

unknown_lines(unknown) ==
    IF unknown = <<>> THEN <<>>
    ELSE << <<"--- FICHIERS NON RECONNUS ---">> >>
         \o [i \in 1..min(unknown_listed, Len(unknown)) |->
                <<"  - ">> \o basename(unknown[i])]
         \o (IF Len(unknown) > unknown_listed
             THEN << <<"  ... et ", ToString(Len(unknown) - unknown_listed), " autres">> >>
             ELSE <<>>)

report_lines(filename, t, extracted_files, categorized, results, errors) ==
    << <<"====">>,
       <<"RAPPORT DE TRAITEMENT PAR LOTS">>,
       <<"====">>,
       <<"Fichier source: ">> \o filename,
       <<"Date de traitement: ", ToString(t)>>,
       <<"Fichiers extraits: ", ToString(Len(extracted_files))>>,
       <<"--- CATEGORISATION ---">>,
       <<"Images DICOM: ", ToString(Len(categorized.images)), " fichiers">>,
       <<"Signaux: ", ToString(Len(categorized.signals)), " groupes">>,
       <<"Documents texte: ", ToString(Len(categorized.text)), " fichiers">>,
       <<"Non reconnus: ", ToString(Len(categorized.unknown)), " fichiers">>,
       <<"--- RESULTATS ---">> >>
    \o [i \in 1..Len(CATEGORIES) |-> outcome_line(CATEGORIES[i], results, errors)]
    \o unknown_lines(categorized.unknown)
    \o << <<"====">>, <<"Traitement termine.">>, <<"====">> >>

\* "\n".join(lines)
RECURSIVE join_lines(_)
join_lines(lines) ==
    IF lines = <<>> THEN <<>>
    ELSE IF Len(lines) = 1 THEN lines[1]
    ELSE lines[1] \o <<"\n">> \o join_lines(Tail(lines))

Entry(name, content) == [name |-> name, content |-> content]

report_name == <<"processing_report", ".txt">>

final_zip_of_every_dispatch(filename, t, extracted_files, categorized, results, errors) ==
    [i \in 1..Len(results) |->
        Entry(<<results[i].key, "_results.zip">>, results[i].value)]
    \o [i \in 1..Len(errors) |-> Entry(<<errors[i].key, "_results.zip">>, <<>>)]
    \o << Entry(report_name,
                join_lines(report_lines(filename, t, extracted_files, categorized,
                                        results, errors))) >>

\* the entries written into final_zip, in order
final_zip(filename, t, extracted_files, categorized, results, errors) ==
    [i \in 1..Len(results) |->
        Entry(<<results[i].key, "_results.zip">>, results[i].value)]
    \o << Entry(report_name,
                join_lines(report_lines(filename, t, extracted_files, categorized,
                                        results, errors))) >>

----------------------------------------------------------------------------
(* SpecBatch: POST /batch/process_zip.  The upload is named batch.ZIP or   *)
(* batch.rar; it is not a ZIP file, or a ZIP file of up to MaxMembers      *)
(* members taken among an image, a signal file, a text document and two    *)
(* files of no known type, or one of these MAX_FILES_IN_ZIP + 1 times, or  *)
(* the archive of a.dcm, rec.hea, rec.dat, notes.txt and mystery.xyz.      *)
(* Setting up the scratch directory or writing the final archive may       *)
(* raise.  Each dispatched category gets any of the collaborator's         *)
(* behaviours of BatchReplies.  A step is the handler up to its dispatch   *)
(* loop, one turn of the loop, or the rest of the handler after the loop;  *)
(* the clock does not advance.                                             *)

BatchMembers ==
    { Member(<< <<"a", ".dcm">> >>, FALSE, 1),
      Member(<< <<"rec", ".hea">> >>, FALSE, 1),
      Member(<< <<"notes", ".txt">> >>, FALSE, 1),
      Member(<< <<"mystery", ".xyz">> >>, FALSE, 1),
      Member(<< <<"LICENSE">> >>, FALSE, 1) }

\* the archive of one image, one two-file record, one text document and
\* one file of no known type
MixedArchive ==
    [is_zipfile |-> TRUE, compressed_size |-> 3,
     infolist |-> << Member(<< <<"a", ".dcm">> >>, FALSE, 1),
                     Member(<< <<"rec", ".hea">> >>, FALSE, 1),
                     Member(<< <<"rec", ".dat">> >>, FALSE, 1),
                     Member(<< <<"notes", ".txt">> >>, FALSE, 1),
                     Member(<< <<"mystery", ".xyz">> >>, FALSE, 1) >>]

Upload(filename, zip_file) == [filename |-> filename, zip_file |-> zip_file]

BatchUploads ==
    {Upload(<<"batch", ".rar">>, NotAZip), Upload(<<"batch", ".ZIP">>, NotAZip)}
        \cup {Upload(<<"batch", ".ZIP">>, z) :
                 z \in ZipFiles(BatchMembers, {2}, MaxMembers)
                       \cup OverfullZips(BatchMembers) \cup {MixedArchive}}

BatchReplies ==
    { Response(200, <<"application/zip">>, <<"PK">>),
      Response(200, <<"text/html">>, <<"<html>">>),
      Response(500, <<"application/json">>, [i \in 1..(error_detail_limit + 1) |-> "e"]),
      Response(404, <<>>, <<>>),
      Raised(<<"Read timed out">>) }

BatchResponse(status_code, detail, entries) ==
    [status_code |-> status_code, detail |-> detail, entries |-> entries]

\* the handler has raised HTTPException(status_code, detail); `created` is
\* the handler's variable temp_dir (None as the empty set), `raised` the
\* call whose exception was turned into the HTTPException, if any
Raises(file, created, status_code, detail, raised) ==
    [pc |-> "done", file |-> file, temp_dir |-> created, raised |-> raised,
     dispatched |-> <<>>, response |-> BatchResponse(status_code, detail, <<>>)]

Refused(file, status_code, detail) == Raises(file, {}, status_code, detail, None)

\* except Exception: the generic HTTPException(500)
InternalError(file, created, raised) ==
    Raises(file, created, 500, <<"Erreur lors du traitement du fichier ZIP.">>, raised)

\* str.endswith('.zip') on the lower-cased name
is_zip_name(filename) == lower(filename[Len(filename)]) = ".zip"

processable_count_with_unknown(categorized) ==
    Len(categorized.images) + Len(categorized.signals) + Len(categorized.text)
        + Len(categorized.unknown)

processable_count(categorized) ==
    Len(categorized.images) + Len(categorized.signals) + Len(categorized.text)

\* the handler from its first line to the dispatch loop; every raise runs
\* the finally clause
BExtract ==
    /\ batch.pc = "idle"
    /\ \E file \in BatchUploads :
         IF ~is_zip_name(file.filename)
         THEN /\ batch' = Refused(file, 400, <<"Le fichier doit etre un ZIP">>)
              /\ UNCHANGED <<disk, extraction>>
         ELSE \/ \* tempfile.mkdtemp raises
                 /\ batch' = InternalError(file, {}, "mkdtemp")
                 /\ UNCHANGED <<disk, extraction>>
              \/ \* os.makedirs raises
                 /\ batch' = InternalError(file, {temp_dir}, "makedirs")
                 /\ disk' = rmtree(write_file(disk, temp_dir, Directory), temp_dir)
                 /\ UNCHANGED extraction
              \/ \E fault \in (0 - 1)..Len(file.zip_file.infolist) :
                   LET scratch == write_file(write_file(disk, temp_dir, Directory),
                                             extract_dir, Directory)
                       ret == extract_zip_safely(file.zip_file, scratch, fault)
                       categorized == categorize_files(ret.extracted_files)
                   IN  /\ extraction' = ExtractionOf(file.zip_file, fault, ret)
                       /\ IF ~ret.success
                          THEN /\ batch' = Raises(file, {temp_dir}, 400,
                                                  <<ret.error_message>>, None)
                               /\ disk' = rmtree(ret.disk, temp_dir)
                          ELSE IF ret.extracted_files = <<>>
                          THEN /\ batch' = Raises(file, {temp_dir}, 400,
                                       <<"Aucun fichier trouve dans le ZIP">>, None)
                               /\ disk' = rmtree(ret.disk, temp_dir)
                          ELSE IF processable_count(categorized) = 0
                          THEN /\ batch' = Raises(file, {temp_dir}, 400,
                                       <<"Aucun fichier traitable trouve. Fichiers non reconnus: ",
                                         ToString(Len(categorized.unknown))>>, None)
                               /\ disk' = rmtree(ret.disk, temp_dir)
                          ELSE /\ batch' = [pc |-> "dispatch", file |-> file,
                                            temp_dir |-> {temp_dir},
                                            raised |-> None,
                                            extracted_files |-> ret.extracted_files,
                                            categorized |-> categorized,
                                            category |-> 1,
                                            dispatched |-> <<>>,
                                            results |-> <<>>,
                                            errors |-> <<>>,
                                            response |-> BatchResponse(0, <<>>, <<>>)]
                               /\ disk' = ret.disk
    /\ UNCHANGED <<trackerVars, sysVars>>
    /\ UNCHANGED pollVars
    /\ UNCHANGED callVars

Dispatched(category, ret) ==
    [category |-> category, success |-> ret.success, error |-> ret.error]

BDispatchStopOnFailure ==
    /\ batch.pc = "dispatch"
    /\ batch.category <= Len(CATEGORIES)
    /\ LET category == CATEGORIES[batch.category]
           files == batch.categorized[category]
       IN  IF files = <<>>
           THEN batch' = [batch EXCEPT !.category = @ + 1]
           ELSE \E reply \in BatchReplies :
                    LET ret == process_file_category(category, files, disk, reply)
                    IN  batch' =
                          [batch EXCEPT
                             !.category = IF ret.success THEN @ + 1 ELSE Len(CATEGORIES) + 1,
                             !.dispatched = Append(@, Dispatched(category, ret)),
                             !.results = IF ret.success
                                         THEN dict_set(@, category, ret.zip_content) ELSE @,
                             !.errors = IF ret.success
                                        THEN @ ELSE dict_set(@, category, ret.error)]
    /\ UNCHANGED <<disk, extraction>>
    /\ UNCHANGED <<trackerVars, sysVars>>
    /\ UNCHANGED pollVars
    /\ UNCHANGED callVars

\* one turn of `for category in ['images', 'signals', 'text']`
BDispatch ==
    /\ batch.pc = "dispatch"
    /\ batch.category <= Len(CATEGORIES)
    /\ LET category == CATEGORIES[batch.category]
           files == batch.categorized[category]
       IN  IF files = <<>>
           THEN batch' = [batch EXCEPT !.category = @ + 1]
           ELSE \E reply \in BatchReplies :
                    LET ret == process_file_category(category, files, disk, reply)
                    IN  batch' =
                          [batch EXCEPT
                             !.category = @ + 1,
                             !.dispatched = Append(@, Dispatched(category, ret)),
                             !.results = IF ret.success
                                         THEN dict_set(@, category, ret.zip_content) ELSE @,
                             !.errors = IF ret.success
                                        THEN @ ELSE dict_set(@, category, ret.error)]
    /\ UNCHANGED <<disk, extraction>>
    /\ UNCHANGED <<trackerVars, sysVars>>
    /\ UNCHANGED pollVars
    /\ UNCHANGED callVars

\* the final archive, the scheduling of remove_temp_files, the response and
\* the finally clause; or writing the final archive raises, and the finally
\* clause runs with no task scheduled
BAssemble ==
    /\ batch.pc = "dispatch"
    /\ batch.category > Len(CATEGORIES)
    /\ \/ batch' = [batch EXCEPT
                       !.pc = "responded",
                       !.response = BatchResponse(200, <<>>,
                           final_zip(batch.file.filename, now, batch.extracted_files,
                                     batch.categorized, batch.results, batch.errors))]
       \/ batch' = [batch EXCEPT
                       !.pc = "done",
                       !.raised = "writestr",
                       !.response = InternalError(batch.file, batch.temp_dir,
                                                  "writestr").response]
    /\ disk' = IF temp_dir \in DOMAIN disk THEN rmtree(disk, temp_dir) ELSE disk
    /\ UNCHANGED extraction
    /\ UNCHANGED <<trackerVars, sysVars>>
    /\ UNCHANGED pollVars
    /\ UNCHANGED callVars

\* the background task remove_temp_files, run after the response
BRemoveTempFiles ==
    /\ batch.pc = "responded"
    /\ batch' = [batch EXCEPT !.pc = "done"]
    /\ disk' = IF temp_dir \in DOMAIN disk THEN rmtree(disk, temp_dir) ELSE disk
    /\ UNCHANGED extraction
    /\ UNCHANGED <<trackerVars, sysVars>>
    /\ UNCHANGED pollVars
    /\ UNCHANGED callVars

NextBatch ==
    \/ BExtract
    \/ BDispatch
    \/ BAssemble
    \/ BRemoveTempFiles

SpecBatch == Init /\ [][NextBatch]_vars

\* the request is in or past its dispatch loop
InPipeline == batch.pc \in {"dispatch", "responded", "done"} /\ "category" \in DOMAIN batch

LoopOver == batch.category > Len(CATEGORIES)

DispatchedCategories == [i \in 1..Len(batch.dispatched) |-> batch.dispatched[i].category]

\* C18: every non-empty category among images, signals, text is dispatched
\* exactly once, in that order, whatever the outcome of the categories
\* before it; an empty category and the unknown list are never dispatched;
\* each category ends in results (success), in errors (failure) or in
\* neither (skipped), never in both.
EachCategoryDispatchedOnce ==
    InPipeline =>
        /\ DispatchedCategories =
               SelectSeq(SubSeq(CATEGORIES, 1, batch.category - 1),
                         LAMBDA c : batch.categorized[c] # <<>>)
        /\ keys(batch.results) \cap keys(batch.errors) = {}
        /\ Len(batch.results) + Len(batch.errors) = Len(batch.dispatched)
        /\ \A i \in 1..Len(batch.dispatched) :
               LET d == batch.dispatched[i]
               IN  IF d.success
                   THEN d.category \in keys(batch.results)
                   ELSE /\ d.category \in keys(batch.errors)
                        /\ value_of(batch.errors, d.category) = d.error
        /\ LoopOver =>
               \A c \in Range(CATEGORIES) :
                   (c \in Range(DispatchedCategories)) <=> (batch.categorized[c] # <<>>)

\* the loop is over: images and signals failed and text, dispatched after
\* them, succeeded
TextDispatchedAfterTwoFailures ==
    /\ InPipeline
    /\ LoopOver
    /\ DispatchedCategories = CATEGORIES
    /\ keys(batch.errors) = {"images", "signals"}
    /\ keys(batch.results) = {"text"}

\* the text holds `line` as one of its lines
has_line(text, line) ==
    \E k \in 1..Len(text) :
        /\ k + Len(line) - 1 <= Len(text)
        /\ SubSeq(text, k, k + Len(line) - 1) = line
        /\ k = 1 \/ text[k - 1] = "\n"
        /\ k + Len(line) - 1 = Len(text) \/ text[k + Len(line)] = "\n"

EntryNames == [i \in 1..Len(batch.response.entries) |-> batch.response.entries[i].name]

\* C19: the final archive holds <category>_results.zip iff that category's
\* dispatch succeeded, plus exactly one processing_report.txt, and the
\* report's outcome line of each category matches its outcome.
FinalArchiveMatchesOutcomes ==
    (batch.pc \in {"responded", "done"} /\ batch.response.status_code = 200) =>
        LET entries == batch.response.entries
            succeeded == {d.category : d \in {x \in Range(batch.dispatched) : x.success}}
            failed == {x \in Range(batch.dispatched) : ~x.success}
            report == (CHOOSE e \in Range(entries) : e.name = report_name).content
        IN  /\ Range(EntryNames) =
                   {<<c, "_results.zip">> : c \in succeeded} \cup {report_name}
            /\ Len(entries) = Cardinality(succeeded) + 1
            /\ \A c \in succeeded : has_line(report, <<"v ", c, ": Traite avec succes">>)
            /\ \A d \in failed :
                   has_line(report, <<"x ", d.category, ": Erreur - ">> \o d.error)
            /\ \A c \in Range(CATEGORIES) \ Range(DispatchedCategories) :
                   has_line(report, <<"- ", c, ": Aucun fichier a traiter">>)

\* images failed with a server error, signals and text succeeded: the
\* archive holds the two result archives and the report
ArchiveOfTwoSuccessesAndOneFailure ==
    /\ batch.pc = "responded"
    /\ batch.response.status_code = 200
    /\ EntryNames = << <<"signals", "_results.zip">>, <<"text", "_results.zip">>,
                       report_name >>
    /\ \E d \in Range(batch.dispatched) :
           /\ d.category = "images"
           /\ ~d.success
           /\ d.error = <<"Erreur ", "500", ": ">> \o [i \in 1..error_detail_limit |-> "e"]

\* the handler has returned a response or raised
HandlerOver == batch.pc \in {"responded", "done"}

\* C25: process_batch_zip answers 400 and dispatches no category when the
\* upload is rejected by extraction, when extraction gives no file, or when
\* every extracted file is of no known type; it answers with an archive
\* only when a category was non-empty; an unanticipated exception becomes
\* the generic 500 error.
RefusalsAnswerFourHundred ==
    batch.pc # "idle" =>
        LET files == extraction.extracted_files
            rejected == extraction.returned /\ ~extraction.success
            nothing == extraction.returned /\ extraction.success /\ files = <<>>
            unknown_only ==
                /\ extraction.returned /\ extraction.success /\ files # <<>>
                /\ \A f \in Range(files) : category_of(lower(suffix(f))) = "unknown"
        IN  /\ (rejected \/ nothing \/ unknown_only) =>
                   /\ batch.pc = "done"
                   /\ batch.response.status_code = 400
                   /\ batch.response.entries = <<>>
                   /\ batch.dispatched = <<>>
            /\ batch.response.status_code = 200 =>
                   /\ extraction.returned /\ extraction.success
                   /\ \E f \in Range(files) : category_of(lower(suffix(f))) # "unknown"
                   /\ batch.response.entries # <<>>
            /\ batch.raised # None =>
                   /\ batch.pc = "done"
                   /\ batch.response =
                          BatchResponse(500, <<"Erreur lors du traitement du fichier ZIP.">>, <<>>)

\* C25 witness: an archive of two files of no known type has been refused
UnknownOnlyArchiveRefused ==
    /\ batch.pc = "done"
    /\ batch.response.status_code = 400
    /\ batch.response.detail =
           <<"Aucun fichier traitable trouve. Fichiers non reconnus: ", "2">>
    /\ extraction.returned /\ extraction.success
    /\ Len(extraction.extracted_files) = 2

MixedArchiveReport ==
    (/\ HandlerOver
     /\ batch.response.status_code = 200
     /\ batch.file.zip_file = MixedArchive
     /\ keys(batch.results) = Range(CATEGORIES)) =>
        LET entries == batch.response.entries
            report == (CHOOSE e \in Range(entries) : e.name = report_name).content
        IN  /\ EntryNames = << <<"images", "_results.zip">>, <<"signals", "_results.zip">>,
                               <<"text", "_results.zip">>, report_name >>
            /\ has_line(report, <<"Fichiers extraits: ", "4">>)
            /\ has_line(report, <<"Non reconnus: ", "1", " fichiers">>)
            /\ has_line(report, <<"  - ", "mystery", ".xyz">>)
            /\ \A c \in Range(CATEGORIES) :
                   has_line(report, <<"v ", c, ": Traite avec succes">>)

\* text.split("\n")
RECURSIVE split_lines(_)
split_lines(text) ==
    IF \A i \in 1..Len(text) : text[i] # "\n" THEN <<text>>
    ELSE LET k == CHOOSE i \in 1..Len(text) :
                      text[i] = "\n" /\ \A m \in 1..(i - 1) : text[m] # "\n"
         IN  <<SubSeq(text, 1, k - 1)>> \o split_lines(SubSeq(text, k + 1, Len(text)))

\* the line reports the outcome of a category
is_outcome_line(line) ==
    /\ Len(line) >= 3
    /\ line[1] \in {"v ", "x ", "- "}
    /\ line[2] \in Range(CATEGORIES)
    /\ line[3] \in {": Traite avec succes", ": Erreur - ", ": Aucun fichier a traiter"}

\* the line names an unknown file / states how many are not named
is_unknown_name_line(line) == Len(line) >= 1 /\ line[1] = "  - "
is_remainder_line(line) == Len(line) = 3 /\ line[1] = "  ... et " /\ line[3] = " autres"

\* C33: the processing report holds exactly one outcome line per category,
\* in the order images, signals, text, whichever categories were dispatched
\* or succeeded; for an unknown list of length u it names the first
\* min(u, unknown_listed) unknown files in extraction order, followed by a
\* remainder line stating u - unknown_listed if and only if
\* u > unknown_listed.
ReportListsCategoriesAndUnknownFiles ==
    (HandlerOver /\ batch.response.status_code = 200) =>
        LET entries == batch.response.entries
            report == (CHOOSE e \in Range(entries) : e.name = report_name).content
            lines == split_lines(report)
            outcomes == SelectSeq(lines, is_outcome_line)
            unknown == SelectSeq(batch.extracted_files,
                           LAMBDA f : category_of(lower(suffix(f))) = "unknown")
            u == Len(unknown)
            named == {i \in 1..Len(lines) : is_unknown_name_line(lines[i])}
            remainders == {i \in 1..Len(lines) : is_remainder_line(lines[i])}
        IN  /\ Len(outcomes) = Len(CATEGORIES)
            /\ \A i \in 1..Len(outcomes) : outcomes[i][2] = CATEGORIES[i]
            /\ Cardinality(named) = min(u, unknown_listed)
            /\ \A i \in named :
                   LET nth == Cardinality({k \in named : k <= i})
                   IN  /\ lines[i] = <<"  - ">> \o basename(unknown[nth])
                       /\ \A k \in 1..Len(lines) : is_outcome_line(lines[k]) => k < i
                       /\ nth < Cardinality(named) => i + 1 \in named
            /\ (remainders # {}) <=> (u > unknown_listed)
            /\ \A i \in remainders :
                   /\ Cardinality(remainders) = 1
                   /\ lines[i][2] = ToString(u - unknown_listed)
                   /\ i - 1 \in named
                   /\ \A k \in named : k < i

\* C33 witness: of mystery.xyz, LICENSE, mystery.xyz and a.dcm the report
\* names the first unknown_listed unknown files and counts the rest, the
\* image pipeline having failed
ReportCountsUnnamedUnknownFiles ==
    /\ HandlerOver
    /\ batch.response.status_code = 200
    /\ Len(batch.categorized.unknown) = unknown_listed + 1
    /\ basename(batch.categorized.unknown[1]) = <<"mystery", ".xyz">>
    /\ basename(batch.categorized.unknown[2]) = <<"LICENSE">>
    /\ keys(batch.errors) = {"images"}
    /\ has_line((CHOOSE e \in Range(batch.response.entries) :
                     e.name = report_name).content,
                <<"  ... et ", "1", " autres">>)

====
